---- MODULE Spec2Model ----
(***************************************************************************)
(* A state-machine model of the TCP engine of mymicrops (src/tcp.c) and of *)
(* the scheduling context it parks user tasks on                           *)
(* (src/platform/linux/sched.c).                                           *)
(*                                                                         *)
(* One action is one critical section of the TCP mutex: a whole worker     *)
(* handler (tcp_input, a timer sweep, the event handler) or the part of a  *)
(* user command that runs between acquiring the mutex and either parking   *)
(* in sched_sleep or returning.  Time is in milliseconds.                  *)
(***************************************************************************)
EXTENDS Integers, Sequences, FiniteSets, TLC

(***************************************************************************)
(* Program constants                                                       *)
(***************************************************************************)
TCP_FLG_FIN == 1
TCP_FLG_SYN == 2
TCP_FLG_RST == 4
TCP_FLG_PSH == 8
TCP_FLG_ACK == 16

TCP_PCB_STATE_FREE == 0
TCP_PCB_STATE_CLOSED == 1
TCP_PCB_STATE_LISTEN == 2
TCP_PCB_STATE_SYN_SENT == 3
TCP_PCB_STATE_SYN_RECEIVED == 4
TCP_PCB_STATE_ESTABLISHED == 5
TCP_PCB_STATE_FIN_WAIT1 == 6
TCP_PCB_STATE_FIN_WAIT2 == 7
TCP_PCB_STATE_CLOSING == 8
TCP_PCB_STATE_TIME_WAIT == 9
TCP_PCB_STATE_CLOSE_WAIT == 10
TCP_PCB_STATE_LAST_ACK == 11

TCP_DEFAULT_RTO == 200000        \* micro seconds
TCP_RETRANSMIT_DEADLINE == 12    \* seconds
TCP_USER_TIMEOUT_TIME == 30      \* seconds
TCP_MSL == 120                   \* seconds
BUF_SIZE == 16                   \* sizeof(pcb->buf)
LOOPBACK_MTU == 65535
EINTR == 4
EBUSY == 16

(***************************************************************************)
(* Bounds of the model                                                     *)
(***************************************************************************)
NumPcb == 1        \* slots of pcbs[] that are modelled
NumTasks == 2      \* user tasks
SeqBits == 20      \* sequence numbers are kept modulo 2^SeqBits
MaxQueue == 1      \* entries a retransmission queue may hold
PeerSpan == 2      \* sequence numbers the peer uses for its SYN and FIN

Pcbs == 1..NumPcb
Tasks == 1..NumTasks
NoPcb == 0                         \* NULL
SeqMod == 2 ^ SeqBits
WndMod == 65536                    \* uint16_t

U32(x) == x % SeqMod               \* uint32_t arithmetic, reduced width
U16(x) == x % WndMod               \* uint16_t arithmetic
MIN(a, b) == IF a < b THEN a ELSE b

\* TCP_FLG_ISSET(x, y) for a mask y of one or more bits
BitSet(x, b) == (x \div b) % 2 = 1
TCP_FLG_ISSET(x, y) ==
    \E b \in {TCP_FLG_FIN, TCP_FLG_SYN, TCP_FLG_RST, TCP_FLG_PSH, TCP_FLG_ACK} :
        BitSet(y, b) /\ BitSet(x, b)

\* struct ip_endpoint; address 0 is IP_ADDR_ANY
EP(a, pt) == [addr |-> a, port |-> pt]
IP_ADDR_ANY == 0
EP_ANY == EP(IP_ADDR_ANY, 0)        \* the all-zero endpoint
NoEP == EP(-1, -1)                  \* a NULL endpoint pointer

VARIABLES
    pcbs,      \* pcbs[]: the PCB table
    tasks,     \* user tasks: where each one is inside its user command
    step,      \* the operation the last step performed ("none" when the
               \* step changed nothing, sent nothing and returned nothing)
    ret,       \* the user command that returned in the last step, its result
    out,       \* segments handed to ip_output by the last step
    now,       \* gettimeofday(), milliseconds
    estab,     \* per PCB: the sequence variables read at the assignment
               \* pcb->state = TCP_PCB_STATE_ESTABLISHED
    fault,     \* "none", or the way the program has stopped being defined:
               \* "buffer_overrun" (a write past pcb->buf), "destroy_blocked"
               \* (a thread is stuck in pthread_cond_destroy holding the mutex)
    libc,      \* what this build's pthread_cond_destroy does while threads
               \* are blocked on the condition: "ebusy" or "blocks"
    wire,      \* the loopback device's queue: segments sent and not yet
               \* delivered (used when both endpoints are in the PCB table)
    mutex,     \* the TCP mutex: who holds it, and where the worker is inside
               \* its critical section (used when a critical section is
               \* taken in several steps)
    net        \* net.c and intr.c: the protocols' receive queues, the
               \* loopback device's queue, the signals pending on the
               \* interrupt thread, the timer list (used when the
               \* interrupt thread's dispatch is taken step by step)

vars == <<pcbs, tasks, step, ret, out, now, estab, fault, libc, wire, mutex, net>>

\* net.c before anything is registered and before any frame arrives:
\* protocols' queues empty (queue), nothing passed to an input handler yet
\* (handled), no timers; intr.c: no signal pending (usr1 for SIGUSR1, irq the
\* number of queued device IRQs, alrm for SIGALRM), the thread in sigwait;
\* loopback.c: the device's queue empty (dev).  accepted records, per
\* protocol, the frames net_input_handler has queued, in that order; fired
\* the timer handlers called by the last net_timer_handler; frames counts
\* the frames created so far; merged tells that SIGUSR1 was raised while it
\* was already pending; at is the position of net_softirq_handler's loop in
\* the protocol list; order records the handlers passed to
\* net_timer_register, in the order of the calls.
NetIdle ==
    [queue |-> << >>, handled |-> << >>, accepted |-> << >>, dev |-> << >>,
     usr1 |-> FALSE, irq |-> 0, alrm |-> FALSE, pc |-> "sigwait", at |-> 0,
     merged |-> FALSE, timers |-> << >>, order |-> << >>, fired |-> << >>,
     frames |-> 0]

(***************************************************************************)
(* struct tcp_pcb after tcp_pcb_release has zeroed it with memset           *)
(***************************************************************************)
\* MUTEX_INITIALIZER
Unlocked == [by |-> "none", task |-> 0, job |-> "none", at |-> "idle", pcb |-> 0]

ZeroPcb ==
    [ active |-> 0, state |-> TCP_PCB_STATE_FREE,
      local |-> EP_ANY, foreign |-> EP_ANY,
      snd |-> [nxt |-> 0, una |-> 0, wnd |-> 0, wl1 |-> 0, wl2 |-> 0],
      iss |-> 0,
      rcv |-> [nxt |-> 0, wnd |-> 0],
      irs |-> 0,
      start_time |-> 0, time_wait |-> 0,
      buf |-> << >>,          \* the first sizeof(buf) - rcv.wnd bytes of buf
      ctx |-> [interrupted |-> 0, wc |-> 0],
      queue |-> << >> ]

IdleTask == [pc |-> "idle", op |-> "none", pcb |-> NoPcb, state |-> 0,
             sent |-> 0, len |-> 0, size |-> 0]
NoRet == [task |-> 0, op |-> "none", pcb |-> NoPcb, val |-> 0, errno |-> 0,
          data |-> << >>]
Return(op, p, val, errno, data) ==
    [task |-> 0, op |-> op, pcb |-> p, val |-> val, errno |-> errno, data |-> data]
NoSnap == [set |-> FALSE, snd_nxt |-> 0, iss |-> 0, rcv_nxt |-> 0, irs |-> 0]

(***************************************************************************)
(* Scheduling context (sched.c).  A task parked in pthread_cond_wait has   *)
(* pc = "parked"; after a broadcast it has pc = "woken" and runs the rest  *)
(* of sched_sleep once it gets the mutex back.                             *)
(* The machine state M handed through the operators is                     *)
(*   [pcbs, tasks, ret, out, estab, fault, libc].                          *)
(***************************************************************************)
Parked(M, p) == {t \in DOMAIN M.tasks : M.tasks[t].pc = "parked" /\ M.tasks[t].pcb = p}

sched_ctx_init(M, p) ==
    [M EXCEPT !.pcbs[p].ctx = [interrupted |-> 0, wc |-> 0]]

\* pthread_cond_destroy returns 0 or an error number.  Destroying a
\* condition that threads are blocked on is undefined: the library either
\* reports EBUSY or waits for the blocked threads to leave, which they
\* cannot do, because the caller holds the mutex and nobody signals them.
DestroyBlocks(M, p) == Parked(M, p) # {} /\ M.libc = "blocks"

sched_ctx_destroy(M, p) == IF Parked(M, p) # {} THEN EBUSY ELSE 0

sched_wakeup(M, p) ==
    [M EXCEPT !.tasks = [t \in DOMAIN M.tasks |->
        IF t \in Parked(M, p) THEN [M.tasks[t] EXCEPT !.pc = "woken"]
        ELSE M.tasks[t]]]

sched_interrupt(M, p) ==
    sched_wakeup([M EXCEPT !.pcbs[p].ctx.interrupted = 1], p)

(***************************************************************************)
(* PCB table                                                               *)
(***************************************************************************)
FreeSlots(P) == {p \in DOMAIN P : P[p].state = TCP_PCB_STATE_FREE}

\* the slot tcp_pcb_alloc returns (NoPcb for NULL)
AllocSlot(P) ==
    IF FreeSlots(P) = {} THEN NoPcb
    ELSE CHOOSE p \in FreeSlots(P) : \A q \in FreeSlots(P) : p <= q

tcp_pcb_alloc(M) ==
    LET p == AllocSlot(M.pcbs) IN
    IF p = NoPcb THEN M
    ELSE sched_ctx_init([M EXCEPT !.pcbs[p].state = TCP_PCB_STATE_CLOSED], p)

tcp_pcb_release(M, p) ==
    IF DestroyBlocks(M, p) THEN [M EXCEPT !.fault = "destroy_blocked"]
    ELSE IF sched_ctx_destroy(M, p) = -1 THEN sched_wakeup(M, p)
    ELSE [M EXCEPT !.pcbs[p] = ZeroPcb, !.estab[p] = NoSnap]

\* tcp_pcb_select(local, foreign), foreign not NULL: the first PCB in table
\* order whose local and foreign endpoints match, else the wildcard-foreign
\* LISTEN PCB the loop saw last, else NULL
LocalMatch(P, p, local) ==
    /\ (P[p].local.addr = IP_ADDR_ANY \/ P[p].local.addr = local.addr)
    /\ P[p].local.port = local.port

tcp_pcb_select(P, local, foreign) ==
    LET full == {p \in DOMAIN P : LocalMatch(P, p, local) /\ P[p].foreign = foreign}
        lsn  == {p \in DOMAIN P : /\ LocalMatch(P, p, local)
                               /\ P[p].state = TCP_PCB_STATE_LISTEN
                               /\ P[p].foreign = EP_ANY}
        before(p) == {q \in full : q < p} = {}
    IN  IF full # {} THEN CHOOSE p \in full : before(p)
        ELSE IF lsn # {} THEN CHOOSE p \in lsn : \A q \in lsn : q <= p
        ELSE NoPcb

tcp_pcb_get(P, id) ==
    IF id < 0 \/ id >= Len(P) THEN NoPcb
    ELSE IF P[id + 1].state = TCP_PCB_STATE_FREE THEN NoPcb
    ELSE id + 1

tcp_pcb_id(p) == p - 1

(***************************************************************************)
(* Output and retransmission                                               *)
(***************************************************************************)
Segment(seq, ack, flg, wnd, data, local, foreign, ok) ==
    [seq |-> seq, ack |-> ack, flg |-> flg, wnd |-> wnd, data |-> data,
     local |-> local, foreign |-> foreign, ok |-> ok]

\* tcp_output_segment: the segment is built and handed to ip_output; ipok is
\* ip_output's success (the function returns len, or -1 when ~ipok)
tcp_output_segment(M, seq, ack, flg, wnd, data, local, foreign, ipok) ==
    [M EXCEPT !.out = Append(@, Segment(seq, ack, flg, wnd, data, local, foreign, ipok))]

\* the entry is memory_alloc'ed: heap counts the entries allocated and not freed
tcp_retransmit_queue_add(M, p, seq, flg, data, t) ==
    [M EXCEPT !.pcbs[p].queue = Append(@,
        [first |-> t, last |-> t, rto |-> TCP_DEFAULT_RTO,
         seq |-> seq, flg |-> flg, data |-> data]),
              !.heap = @ + 1]

RECURSIVE CleanupQueue(_, _)
CleanupQueue(q, una) ==
    IF q = << >> THEN q
    ELSE IF Head(q).seq >= una THEN q
    ELSE CleanupQueue(Tail(q), una)

\* every entry popped is memory_free'd
tcp_retransmit_queue_cleanup(M, p) ==
    LET q == CleanupQueue(M.pcbs[p].queue, M.pcbs[p].snd.una)
    IN  [M EXCEPT !.pcbs[p].queue = q,
                  !.heap = @ - (Len(M.pcbs[p].queue) - Len(q))]

\* tcp_retransmit_queue_emit with the RTO left as it is
tcp_retransmit_queue_emit_NoBackoff(M, p, i, t) ==
    LET pcb == M.pcbs[p]
        entry == pcb.queue[i]
        diff_sec == (t - entry.first) \div 1000
    IN  IF diff_sec >= TCP_RETRANSMIT_DEADLINE
        THEN sched_wakeup([M EXCEPT !.pcbs[p].state = TCP_PCB_STATE_CLOSED], p)
        ELSE IF t * 1000 > entry.last * 1000 + entry.rto
        THEN [tcp_output_segment(M, entry.seq, pcb.rcv.nxt, entry.flg, pcb.rcv.wnd,
                                 entry.data, pcb.local, pcb.foreign, TRUE)
                EXCEPT !.pcbs[p].queue[i].last = t,
                       !.pcbs[p].queue[i].rto = entry.rto]
        ELSE M

\* tcp_retransmit_queue_emit on entry i of pcb p at time t
tcp_retransmit_queue_emit(M, p, i, t) ==
    LET pcb == M.pcbs[p]
        entry == pcb.queue[i]
        diff_sec == (t - entry.first) \div 1000
    IN  IF diff_sec >= TCP_RETRANSMIT_DEADLINE
        THEN sched_wakeup([M EXCEPT !.pcbs[p].state = TCP_PCB_STATE_CLOSED], p)
        ELSE IF t * 1000 > entry.last * 1000 + entry.rto
        THEN [tcp_output_segment(M, entry.seq, pcb.rcv.nxt, entry.flg, pcb.rcv.wnd,
                                 entry.data, pcb.local, pcb.foreign, TRUE)
                EXCEPT !.pcbs[p].queue[i].last = t,
                       !.pcbs[p].queue[i].rto = entry.rto * 2]
        ELSE M

RECURSIVE EmitFrom(_, _, _, _)
EmitFrom(M, p, i, t) ==
    IF i > Len(M.pcbs[p].queue) THEN M
    ELSE EmitFrom(tcp_retransmit_queue_emit(M, p, i, t), p, i + 1, t)

tcp_retransmit_queue_emit_all(M, p, t) == EmitFrom(M, p, 1, t)

\* tcp_output: result is the machine state; its return value is -1 iff ~ipok
tcp_output(M, p, flg, data, t, ipok) ==
    LET pcb == M.pcbs[p]
        seq == IF TCP_FLG_ISSET(flg, TCP_FLG_SYN) THEN pcb.iss ELSE pcb.snd.nxt
        M1 == IF TCP_FLG_ISSET(flg, TCP_FLG_SYN + TCP_FLG_FIN) \/ Len(data) > 0
              THEN tcp_retransmit_queue_add(M, p, seq, flg, data, t)
              ELSE M
    IN  tcp_output_segment(M1, seq, pcb.rcv.nxt, flg, pcb.rcv.wnd, data,
                           pcb.local, pcb.foreign, ipok)

(***************************************************************************)
(* tcp_segment_arrives (RFC 793 section 3.9).  seg is the segment_info      *)
(* record [seq, ack, len, wnd]; data is the payload; t is gettimeofday().   *)
(***************************************************************************)
InState(pcb, S) == pcb.state \in S

Snapshot(pcb) ==
    [set |-> TRUE, snd_nxt |-> pcb.snd.nxt, iss |-> pcb.iss,
     rcv_nxt |-> pcb.rcv.nxt, irs |-> pcb.irs]

\* pcb->state = TCP_PCB_STATE_ESTABLISHED, recording the moment in estab
SetEstablished(M, p) ==
    [M EXCEPT !.pcbs[p].state = TCP_PCB_STATE_ESTABLISHED,
              !.estab[p] = Snapshot(M.pcbs[p])]

\* SegClosed with the fault that the reset acknowledges seg.seq only
SegClosed_AckNoLen(M, seg, flags, local, foreign) ==
    IF TCP_FLG_ISSET(flags, TCP_FLG_RST) THEN M
    ELSE IF ~TCP_FLG_ISSET(flags, TCP_FLG_ACK)
    THEN tcp_output_segment(M, 0, seg.seq, TCP_FLG_RST + TCP_FLG_ACK,
                            0, << >>, local, foreign, TRUE)
    ELSE tcp_output_segment(M, seg.ack, 0, TCP_FLG_RST, 0, << >>, local, foreign, TRUE)

\* no PCB, or a PCB in CLOSED
SegClosed(M, seg, flags, local, foreign) ==
    IF TCP_FLG_ISSET(flags, TCP_FLG_RST) THEN M
    ELSE IF ~TCP_FLG_ISSET(flags, TCP_FLG_ACK)
    THEN tcp_output_segment(M, 0, U32(seg.seq + seg.len), TCP_FLG_RST + TCP_FLG_ACK,
                            0, << >>, local, foreign, TRUE)
    ELSE tcp_output_segment(M, seg.ack, 0, TCP_FLG_RST, 0, << >>, local, foreign, TRUE)

\* SegListen with the fault that the SYN is not counted in snd.nxt
SegListen_SynNotCounted(M, p, seg, flags, local, foreign, iss, t) ==
    IF TCP_FLG_ISSET(flags, TCP_FLG_RST) THEN M
    ELSE IF TCP_FLG_ISSET(flags, TCP_FLG_ACK)
    THEN tcp_output_segment(M, seg.ack, 0, TCP_FLG_RST, 0, << >>, local, foreign, TRUE)
    ELSE IF TCP_FLG_ISSET(flags, TCP_FLG_SYN)
    THEN LET M1 == [M EXCEPT !.pcbs[p].local = local,
                             !.pcbs[p].foreign = foreign,
                             !.pcbs[p].rcv.wnd = BUF_SIZE,
                             !.pcbs[p].buf = << >>,
                             !.pcbs[p].rcv.nxt = U32(seg.seq + 1),
                             !.pcbs[p].irs = seg.seq,
                             !.pcbs[p].iss = iss]
             M2 == tcp_output(M1, p, TCP_FLG_SYN + TCP_FLG_ACK, << >>, t, TRUE)
         IN  [M2 EXCEPT !.pcbs[p].snd.nxt = iss,
                        !.pcbs[p].snd.una = iss,
                        !.pcbs[p].state = TCP_PCB_STATE_SYN_RECEIVED]
    ELSE M

SegListen(M, p, seg, flags, local, foreign, iss, t) ==
    IF TCP_FLG_ISSET(flags, TCP_FLG_RST) THEN M
    ELSE IF TCP_FLG_ISSET(flags, TCP_FLG_ACK)
    THEN tcp_output_segment(M, seg.ack, 0, TCP_FLG_RST, 0, << >>, local, foreign, TRUE)
    ELSE IF TCP_FLG_ISSET(flags, TCP_FLG_SYN)
    THEN LET M1 == [M EXCEPT !.pcbs[p].local = local,
                             !.pcbs[p].foreign = foreign,
                             !.pcbs[p].rcv.wnd = BUF_SIZE,
                             !.pcbs[p].buf = << >>,
                             !.pcbs[p].rcv.nxt = U32(seg.seq + 1),
                             !.pcbs[p].irs = seg.seq,
                             !.pcbs[p].iss = iss]
             M2 == tcp_output(M1, p, TCP_FLG_SYN + TCP_FLG_ACK, << >>, t, TRUE)
         IN  [M2 EXCEPT !.pcbs[p].snd.nxt = U32(iss + 1),
                        !.pcbs[p].snd.una = iss,
                        !.pcbs[p].state = TCP_PCB_STATE_SYN_RECEIVED]
    ELSE M

SegSynSent(M, p, seg, flags, local, foreign, t) ==
    LET pcb == M.pcbs[p]
        hasAck == TCP_FLG_ISSET(flags, TCP_FLG_ACK)
        acceptable == hasAck /\ pcb.snd.una <= seg.ack /\ seg.ack <= pcb.snd.nxt
    IN
    IF hasAck /\ (seg.ack <= pcb.iss \/ seg.ack > pcb.snd.nxt)
    THEN tcp_output_segment(M, seg.ack, 0, TCP_FLG_RST, 0, << >>, local, foreign, TRUE)
    ELSE IF TCP_FLG_ISSET(flags, TCP_FLG_RST)
    THEN tcp_pcb_release(
             sched_wakeup([M EXCEPT !.pcbs[p].state = TCP_PCB_STATE_CLOSED], p), p)
    ELSE IF TCP_FLG_ISSET(flags, TCP_FLG_SYN)
    THEN LET M1 == [M EXCEPT !.pcbs[p].rcv.nxt = U32(seg.seq + 1),
                             !.pcbs[p].irs = seg.seq]
             M2 == IF acceptable
                   THEN tcp_retransmit_queue_cleanup(
                            [M1 EXCEPT !.pcbs[p].snd.una = seg.ack], p)
                   ELSE M1
         IN  IF M2.pcbs[p].snd.una > M2.pcbs[p].iss
             THEN LET M3 == SetEstablished(M2, p)
                      M4 == tcp_output(M3, p, TCP_FLG_ACK, << >>, t, TRUE)
                  IN  sched_wakeup([M4 EXCEPT !.pcbs[p].snd.wnd = seg.wnd,
                                              !.pcbs[p].snd.wl1 = seg.seq,
                                              !.pcbs[p].snd.wl2 = seg.ack], p)
             ELSE tcp_output([M2 EXCEPT !.pcbs[p].state = TCP_PCB_STATE_SYN_RECEIVED],
                             p, TCP_FLG_SYN + TCP_FLG_ACK, << >>, t, TRUE)
    ELSE M

\* SegFin with FIN_WAIT1 always moved to TIME_WAIT
SegFin_AlwaysTimeWait(M, p, seg, flags, t) ==
    LET st == M.pcbs[p].state IN
    IF ~TCP_FLG_ISSET(flags, TCP_FLG_FIN) THEN M
    ELSE IF st \in {TCP_PCB_STATE_CLOSED, TCP_PCB_STATE_LISTEN, TCP_PCB_STATE_SYN_SENT}
    THEN M
    ELSE
    LET M1 == tcp_output([M EXCEPT !.pcbs[p].rcv.nxt = U32(seg.seq + 1)],
                         p, TCP_FLG_ACK, << >>, t, TRUE)
    IN  IF st \in {TCP_PCB_STATE_SYN_RECEIVED, TCP_PCB_STATE_ESTABLISHED}
        THEN sched_wakeup([M1 EXCEPT !.pcbs[p].state = TCP_PCB_STATE_CLOSE_WAIT], p)
        ELSE IF st = TCP_PCB_STATE_FIN_WAIT1
        THEN IF TRUE
             THEN [M1 EXCEPT !.pcbs[p].state = TCP_PCB_STATE_TIME_WAIT,
                             !.pcbs[p].time_wait = t]
             ELSE [M1 EXCEPT !.pcbs[p].state = TCP_PCB_STATE_CLOSING]
        ELSE IF st = TCP_PCB_STATE_FIN_WAIT2
        THEN [M1 EXCEPT !.pcbs[p].state = TCP_PCB_STATE_TIME_WAIT,
                        !.pcbs[p].time_wait = t]
        ELSE M1

\* 8th, check the FIN bit
SegFin(M, p, seg, flags, t) ==
    LET st == M.pcbs[p].state IN
    IF ~TCP_FLG_ISSET(flags, TCP_FLG_FIN) THEN M
    ELSE IF st \in {TCP_PCB_STATE_CLOSED, TCP_PCB_STATE_LISTEN, TCP_PCB_STATE_SYN_SENT}
    THEN M
    ELSE
    LET M1 == tcp_output([M EXCEPT !.pcbs[p].rcv.nxt = U32(seg.seq + 1)],
                         p, TCP_FLG_ACK, << >>, t, TRUE)
    IN  IF st \in {TCP_PCB_STATE_SYN_RECEIVED, TCP_PCB_STATE_ESTABLISHED}
        THEN sched_wakeup([M1 EXCEPT !.pcbs[p].state = TCP_PCB_STATE_CLOSE_WAIT], p)
        ELSE IF st = TCP_PCB_STATE_FIN_WAIT1
        THEN IF seg.ack = M1.pcbs[p].snd.nxt
             THEN [M1 EXCEPT !.pcbs[p].state = TCP_PCB_STATE_TIME_WAIT,
                             !.pcbs[p].time_wait = t]
             ELSE [M1 EXCEPT !.pcbs[p].state = TCP_PCB_STATE_CLOSING]
        ELSE IF st = TCP_PCB_STATE_FIN_WAIT2
        THEN [M1 EXCEPT !.pcbs[p].state = TCP_PCB_STATE_TIME_WAIT,
                        !.pcbs[p].time_wait = t]
        ELSE M1

\* 7th, process the segment text: memcpy into buf at sizeof(buf) - rcv.wnd.
\* A payload longer than rcv.wnd is written past the end of buf.
SegText(M, p, seg, flags, data, t) ==
    LET pcb == M.pcbs[p]
        len == Len(data)
        room == BUF_SIZE - Len(pcb.buf)
        M1 == IF pcb.state = TCP_PCB_STATE_ESTABLISHED /\ len > 0
              THEN LET Ma == [M EXCEPT
                           !.pcbs[p].buf = @ \o SubSeq(data, 1, MIN(len, room)),
                           !.fault = IF len > pcb.rcv.wnd THEN "buffer_overrun"
                                     ELSE @,
                           !.pcbs[p].rcv.nxt = U32(seg.seq + seg.len),
                           !.pcbs[p].rcv.wnd = U16(pcb.rcv.wnd - len + WndMod)]
                   IN  sched_wakeup(tcp_output(Ma, p, TCP_FLG_ACK, << >>, t, TRUE), p)
              ELSE M
    IN  SegFin(M1, p, seg, flags, t)

\* LAST_ACK with the fault that any acknowledgment number ends the connection
SegLastAck_AnyAck(M, p, seg) ==
    tcp_pcb_release([M EXCEPT !.pcbs[p].state = TCP_PCB_STATE_CLOSED], p)

\* 5th step in LAST_ACK: our FIN is acknowledged, or the segment is dropped
SegLastAck(M, p, seg) ==
    IF seg.ack = M.pcbs[p].snd.nxt
    THEN tcp_pcb_release([M EXCEPT !.pcbs[p].state = TCP_PCB_STATE_CLOSED], p)
    ELSE M

\* 5th, check the ACK field
SegAck(M, p, seg, flags, data, local, foreign, t) ==
    LET pcb == M.pcbs[p]
        st == pcb.state
    IN
    IF ~TCP_FLG_ISSET(flags, TCP_FLG_ACK) THEN M
    ELSE IF st = TCP_PCB_STATE_SYN_RECEIVED
            /\ ~(pcb.snd.una <= seg.ack /\ seg.ack <= pcb.snd.nxt)
    THEN tcp_output_segment(M, seg.ack, 0, TCP_FLG_RST, 0, << >>, local, foreign, TRUE)
    ELSE IF st = TCP_PCB_STATE_LAST_ACK
    THEN SegLastAck(M, p, seg)
    ELSE IF st \in {TCP_PCB_STATE_SYN_RECEIVED, TCP_PCB_STATE_ESTABLISHED,
                    TCP_PCB_STATE_FIN_WAIT1, TCP_PCB_STATE_FIN_WAIT2,
                    TCP_PCB_STATE_CLOSE_WAIT}
    THEN LET M0 == IF st = TCP_PCB_STATE_SYN_RECEIVED
                   THEN sched_wakeup(SetEstablished(M, p), p)
                   ELSE M
         IN
         IF pcb.snd.una < seg.ack /\ seg.ack <= pcb.snd.nxt
         THEN LET M1 == tcp_retransmit_queue_cleanup(
                            [M0 EXCEPT !.pcbs[p].snd.una = seg.ack], p)
                  M2 == IF pcb.snd.wl1 < seg.seq
                           \/ (pcb.snd.wl1 = seg.seq /\ pcb.snd.wl2 <= seg.ack)
                        THEN [M1 EXCEPT !.pcbs[p].snd.wnd = seg.wnd,
                                        !.pcbs[p].snd.wl2 = seg.ack]
                        ELSE M1
                  M3 == IF M2.pcbs[p].state = TCP_PCB_STATE_FIN_WAIT1
                           /\ seg.ack = M2.pcbs[p].snd.nxt
                        THEN [M2 EXCEPT !.pcbs[p].state = TCP_PCB_STATE_FIN_WAIT2]
                        ELSE M2
              IN  SegText(M3, p, seg, flags, data, t)
         ELSE IF ~(seg.ack < pcb.snd.una) /\ seg.ack > pcb.snd.nxt
         THEN tcp_output(M0, p, TCP_FLG_ACK, << >>, t, TRUE)
         ELSE LET M3 == IF M0.pcbs[p].state = TCP_PCB_STATE_FIN_WAIT1
                           /\ seg.ack = M0.pcbs[p].snd.nxt
                        THEN [M0 EXCEPT !.pcbs[p].state = TCP_PCB_STATE_FIN_WAIT2]
                        ELSE M0
              IN  SegText(M3, p, seg, flags, data, t)
    ELSE SegText(M, p, seg, flags, data, t)

\* 4th, check the SYN bit
SegSyn(M, p, seg, flags, data, local, foreign, t) ==
    IF TCP_FLG_ISSET(flags, TCP_FLG_SYN)
       /\ InState(M.pcbs[p], {TCP_PCB_STATE_SYN_RECEIVED, TCP_PCB_STATE_ESTABLISHED,
                              TCP_PCB_STATE_FIN_WAIT1, TCP_PCB_STATE_FIN_WAIT2,
                              TCP_PCB_STATE_CLOSE_WAIT, TCP_PCB_STATE_CLOSING,
                              TCP_PCB_STATE_LAST_ACK, TCP_PCB_STATE_TIME_WAIT})
    THEN LET M1 == tcp_retransmit_queue_emit_all(M, p, t)
         IN  tcp_pcb_release([M1 EXCEPT !.pcbs[p].state = TCP_PCB_STATE_CLOSED], p)
    ELSE SegAck(M, p, seg, flags, data, local, foreign, t)

\* 2nd, check the RST bit
SegRst(M, p, seg, flags, data, local, foreign, t) ==
    LET pcb == M.pcbs[p] IN
    IF ~TCP_FLG_ISSET(flags, TCP_FLG_RST)
    THEN SegSyn(M, p, seg, flags, data, local, foreign, t)
    ELSE IF pcb.state = TCP_PCB_STATE_SYN_RECEIVED
    THEN IF pcb.active # 0
         THEN tcp_pcb_release([M EXCEPT !.pcbs[p].state = TCP_PCB_STATE_CLOSED], p)
         ELSE [M EXCEPT !.pcbs[p].state = TCP_PCB_STATE_LISTEN]
    ELSE IF InState(pcb, {TCP_PCB_STATE_ESTABLISHED, TCP_PCB_STATE_FIN_WAIT1,
                          TCP_PCB_STATE_FIN_WAIT2, TCP_PCB_STATE_CLOSE_WAIT})
    THEN LET M1 == tcp_retransmit_queue_emit_all(M, p, t)
         IN  tcp_pcb_release([M1 EXCEPT !.pcbs[p].state = TCP_PCB_STATE_CLOSED], p)
    ELSE IF InState(pcb, {TCP_PCB_STATE_CLOSING, TCP_PCB_STATE_LAST_ACK,
                          TCP_PCB_STATE_TIME_WAIT})
    THEN tcp_pcb_release([M EXCEPT !.pcbs[p].state = TCP_PCB_STATE_CLOSED], p)
    ELSE SegSyn(M, p, seg, flags, data, local, foreign, t)

\* 1st, check sequence number
SeqAcceptable(pcb, seg) ==
    LET wend == U32(pcb.rcv.nxt + pcb.rcv.wnd)
        last == U32(seg.seq + seg.len + SeqMod - 1)
    IN
    /\ InState(pcb, {TCP_PCB_STATE_SYN_RECEIVED, TCP_PCB_STATE_ESTABLISHED,
                     TCP_PCB_STATE_FIN_WAIT1, TCP_PCB_STATE_FIN_WAIT2,
                     TCP_PCB_STATE_CLOSE_WAIT, TCP_PCB_STATE_LAST_ACK})
    /\ IF seg.len = 0
       THEN IF pcb.rcv.wnd = 0
            THEN seg.seq = pcb.rcv.nxt
            ELSE pcb.rcv.nxt <= seg.seq /\ seg.seq < wend
       ELSE IF pcb.rcv.wnd = 0
            THEN FALSE
            ELSE \/ (pcb.rcv.nxt <= seg.seq /\ seg.seq < wend)
                 \/ (pcb.rcv.nxt <= last /\ last < wend)

SegOther(M, p, seg, flags, data, local, foreign, t) ==
    IF ~SeqAcceptable(M.pcbs[p], seg)
    THEN IF ~TCP_FLG_ISSET(flags, TCP_FLG_RST)
         THEN tcp_output(M, p, TCP_FLG_ACK, << >>, t, TRUE)
         ELSE M
    ELSE SegRst(M, p, seg, flags, data, local, foreign, t)

\* seg.len as tcp_input computes it: payload plus one per SYN and per FIN
SegLen(flags, data) ==
    Len(data) + (IF TCP_FLG_ISSET(flags, TCP_FLG_SYN) THEN 1 ELSE 0)
              + (IF TCP_FLG_ISSET(flags, TCP_FLG_FIN) THEN 1 ELSE 0)

tcp_segment_arrives(M, seg, flags, data, local, foreign, iss, t) ==
    LET p == tcp_pcb_select(M.pcbs, local, foreign) IN
    IF p = NoPcb THEN SegClosed(M, seg, flags, local, foreign)
    ELSE IF M.pcbs[p].state = TCP_PCB_STATE_CLOSED
    THEN SegClosed(M, seg, flags, local, foreign)
    ELSE IF M.pcbs[p].state = TCP_PCB_STATE_LISTEN
    THEN SegListen(M, p, seg, flags, local, foreign, iss, t)
    ELSE IF M.pcbs[p].state = TCP_PCB_STATE_SYN_SENT
    THEN SegSynSent(M, p, seg, flags, local, foreign, t)
    ELSE SegOther(M, p, seg, flags, data, local, foreign, t)

(***************************************************************************)
(* sched_sleep, split at pthread_cond_wait                                 *)
(***************************************************************************)
\* before the wait: TRUE iff the call fails at once with EINTR
SleepRefused(M, p) == M.pcbs[p].ctx.interrupted # 0

\* ctx->wc++ and block in pthread_cond_wait (the mutex is released)
SleepPark(M, t, p, frame) ==
    [M EXCEPT !.pcbs[p].ctx.wc = @ + 1,
              !.tasks[t] = [frame EXCEPT !.pc = "parked", !.pcb = p]]

\* after the wait, with the mutex again: ctx->wc--, then the interrupted test
SleepInterrupted(M, p) == M.pcbs[p].ctx.interrupted # 0

SleepWake(M, p) ==
    LET wc == M.pcbs[p].ctx.wc - 1 IN
    [M EXCEPT !.pcbs[p].ctx.wc = wc,
              !.pcbs[p].ctx.interrupted =
                  IF @ # 0 /\ wc = 0 THEN 0 ELSE @]

\* a user command returns, unless its thread is stuck in tcp_pcb_release
Finish(M, t, r) ==
    IF M.fault = "destroy_blocked" THEN M
    ELSE [M EXCEPT !.tasks[t] = IdleTask, !.ret = [r EXCEPT !.task = t]]

(***************************************************************************)
(* tcp_open_rfc793                                                         *)
(***************************************************************************)
\* label AGAIN: state = pcb->state; while (pcb->state == state) sched_sleep
OpenAgain(M, t, p) ==
    IF SleepRefused(M, p)
    THEN Finish(tcp_pcb_release([M EXCEPT !.pcbs[p].state = TCP_PCB_STATE_CLOSED], p),
                t, Return("open", p, -1, EINTR, << >>))
    ELSE SleepPark(M, t, p, [IdleTask EXCEPT !.op = "open",
                                             !.state = M.pcbs[p].state])

\* OpenDone with the fault that the error return forgets tcp_pcb_release
OpenDone_NoRelease(M, t, p) ==
    IF M.pcbs[p].state # TCP_PCB_STATE_ESTABLISHED
    THEN IF M.pcbs[p].state = TCP_PCB_STATE_SYN_RECEIVED
         THEN OpenAgain(M, t, p)
         ELSE Finish([M EXCEPT !.pcbs[p].state = TCP_PCB_STATE_CLOSED],
                     t, Return("open", p, -1, 0, << >>))
    ELSE Finish(M, t, Return("open", p, tcp_pcb_id(p), 0, << >>))

\* after the while loop has ended
OpenDone(M, t, p) ==
    IF M.pcbs[p].state # TCP_PCB_STATE_ESTABLISHED
    THEN IF M.pcbs[p].state = TCP_PCB_STATE_SYN_RECEIVED
         THEN OpenAgain(M, t, p)
         ELSE Finish(tcp_pcb_release(
                         [M EXCEPT !.pcbs[p].state = TCP_PCB_STATE_CLOSED], p),
                     t, Return("open", p, -1, 0, << >>))
    ELSE Finish(M, t, Return("open", p, tcp_pcb_id(p), 0, << >>))

tcp_open_rfc793(M, t, local, foreign, active, iss, tm, ipok) ==
    LET p == AllocSlot(M.pcbs)
        M1 == [tcp_pcb_alloc(M) EXCEPT !.pcbs[p].active = active,
                                       !.pcbs[p].start_time = tm]
    IN
    IF p = NoPcb THEN Finish(M, t, Return("open", NoPcb, -1, 0, << >>))
    ELSE IF active # 0
    THEN LET M2 == [M1 EXCEPT !.pcbs[p].local = local,
                              !.pcbs[p].foreign = foreign,
                              !.pcbs[p].rcv.wnd = BUF_SIZE,
                              !.pcbs[p].iss = iss]
             M3 == tcp_output(M2, p, TCP_FLG_SYN, << >>, tm, ipok)
         IN  IF ~ipok
             THEN Finish(tcp_pcb_release(
                             [M3 EXCEPT !.pcbs[p].state = TCP_PCB_STATE_CLOSED], p),
                         t, Return("open", p, -1, 0, << >>))
             ELSE OpenAgain([M3 EXCEPT !.pcbs[p].snd.una = iss,
                                       !.pcbs[p].snd.nxt = U32(iss + 1),
                                       !.pcbs[p].state = TCP_PCB_STATE_SYN_SENT],
                            t, p)
    ELSE OpenAgain([M1 EXCEPT !.pcbs[p].local = local,
                              !.pcbs[p].foreign = IF foreign # NoEP THEN foreign ELSE @,
                              !.pcbs[p].state = TCP_PCB_STATE_LISTEN],
                   t, p)

\* the task is back from pthread_cond_wait inside tcp_open_rfc793
OpenResume(M, t) ==
    LET p == M.tasks[t].pcb
        M1 == SleepWake(M, p)
    IN  IF SleepInterrupted(M, p)
        THEN Finish(tcp_pcb_release(
                        [M1 EXCEPT !.pcbs[p].state = TCP_PCB_STATE_CLOSED], p),
                    t, Return("open", p, -1, EINTR, << >>))
        ELSE IF M1.pcbs[p].state = M.tasks[t].state
        THEN SleepPark(M1, t, p, M.tasks[t])
        ELSE OpenDone(M1, t, p)

(***************************************************************************)
(* tcp_close                                                               *)
(***************************************************************************)
\* tcp_close with the fault that the FIN sent from CLOSE_WAIT is not counted
tcp_close_NoSeqForFin(M, t, id, tm, ipok) ==
    LET p == tcp_pcb_get(M.pcbs, id) IN
    IF p = NoPcb THEN Finish(M, t, Return("close", NoPcb, -1, 0, << >>))
    ELSE IF M.pcbs[p].state = TCP_PCB_STATE_ESTABLISHED
    THEN LET M1 == tcp_output(M, p, TCP_FLG_ACK + TCP_FLG_FIN, << >>, tm, ipok)
         IN  Finish(sched_wakeup(
                        [M1 EXCEPT !.pcbs[p].state = TCP_PCB_STATE_FIN_WAIT1,
                                   !.pcbs[p].snd.nxt = U32(@ + 1)], p),
                    t, Return("close", p, 0, 0, << >>))
    ELSE IF M.pcbs[p].state = TCP_PCB_STATE_CLOSE_WAIT
    THEN LET M1 == tcp_output(M, p, TCP_FLG_ACK + TCP_FLG_FIN, << >>, tm, ipok)
         IN  Finish(sched_wakeup(
                        [M1 EXCEPT !.pcbs[p].state = TCP_PCB_STATE_LAST_ACK], p),
                    t, Return("close", p, 0, 0, << >>))
    ELSE Finish(M, t, Return("close", p, -1, 0, << >>))

tcp_close(M, t, id, tm, ipok) ==
    LET p == tcp_pcb_get(M.pcbs, id) IN
    IF p = NoPcb THEN Finish(M, t, Return("close", NoPcb, -1, 0, << >>))
    ELSE IF M.pcbs[p].state = TCP_PCB_STATE_ESTABLISHED
    THEN LET M1 == tcp_output(M, p, TCP_FLG_ACK + TCP_FLG_FIN, << >>, tm, ipok)
         IN  Finish(sched_wakeup(
                        [M1 EXCEPT !.pcbs[p].state = TCP_PCB_STATE_FIN_WAIT1,
                                   !.pcbs[p].snd.nxt = U32(@ + 1)], p),
                    t, Return("close", p, 0, 0, << >>))
    ELSE IF M.pcbs[p].state = TCP_PCB_STATE_CLOSE_WAIT
    THEN LET M1 == tcp_output(M, p, TCP_FLG_ACK + TCP_FLG_FIN, << >>, tm, ipok)
         IN  Finish(sched_wakeup(
                        [M1 EXCEPT !.pcbs[p].state = TCP_PCB_STATE_LAST_ACK,
                                   !.pcbs[p].snd.nxt = U32(@ + 1)], p),
                    t, Return("close", p, 0, 0, << >>))
    ELSE Finish(M, t, Return("close", p, -1, 0, << >>))

(***************************************************************************)
(* tcp_send.  The caller's buffer holds the bytes 1, 2, ..., len.          *)
(***************************************************************************)
\* mss = mtu - (IP_HDR_SIZE_MIN + sizeof(struct tcp_hdr))
Mss == LOOPBACK_MTU - (20 + 20)

UserData(from, n) == [i \in 1..n |-> from + i]

\* cap = pcb->snd.wnd - (pcb->snd.nxt - pcb->snd.una), unsigned arithmetic
SendCap(pcb) == U32(pcb.snd.wnd + SeqMod - U32(pcb.snd.nxt + SeqMod - pcb.snd.una))

RECURSIVE SendLoop(_, _, _, _, _, _, _)
SendLoop(M, t, p, len, sent, tm, ipok) ==
    LET pcb == M.pcbs[p]
        cap == SendCap(pcb)
        slen == MIN(MIN(Mss, len - sent), cap)
    IN
    IF ~(sent < len) THEN Finish(M, t, Return("send", p, sent, 0, << >>))
    ELSE IF cap = 0
    THEN IF SleepRefused(M, p)
         THEN IF sent = 0
              THEN Finish(M, t, Return("send", p, -1, EINTR, << >>))
              ELSE Finish(M, t, Return("send", p, sent, 0, << >>))
         ELSE SleepPark(M, t, p, [IdleTask EXCEPT !.op = "send", !.len = len,
                                                  !.sent = sent])
    ELSE LET M1 == tcp_output(M, p, TCP_FLG_ACK + TCP_FLG_PSH,
                              UserData(sent, slen), tm, ipok)
         IN  IF ~ipok
             THEN Finish(tcp_pcb_release(
                             [M1 EXCEPT !.pcbs[p].state = TCP_PCB_STATE_CLOSED], p),
                         t, Return("send", p, -1, 0, << >>))
             ELSE SendLoop([M1 EXCEPT !.pcbs[p].snd.nxt = U32(@ + slen)],
                           t, p, len, sent + slen, tm, ipok)

\* label RETRY
SendRetry(M, t, p, len, sent, tm, ipok) ==
    IF InState(M.pcbs[p], {TCP_PCB_STATE_ESTABLISHED, TCP_PCB_STATE_CLOSE_WAIT})
    THEN SendLoop(M, t, p, len, sent, tm, ipok)
    ELSE Finish(M, t, Return("send", p, -1, 0, << >>))

tcp_send(M, t, id, len, tm, ipok) ==
    LET p == tcp_pcb_get(M.pcbs, id) IN
    IF p = NoPcb THEN Finish(M, t, Return("send", NoPcb, -1, 0, << >>))
    ELSE SendRetry(M, t, p, len, 0, tm, ipok)

SendResume(M, t, tm, ipok) ==
    LET p == M.tasks[t].pcb
        M1 == SleepWake(M, p)
        sent == M.tasks[t].sent
    IN  IF SleepInterrupted(M, p)
        THEN IF sent = 0
             THEN Finish(M1, t, Return("send", p, -1, EINTR, << >>))
             ELSE Finish(M1, t, Return("send", p, sent, 0, << >>))
        ELSE SendRetry(M1, t, p, M.tasks[t].len, sent, tm, ipok)

(***************************************************************************)
(* tcp_receive                                                             *)
(***************************************************************************)
\* variant: end of stream is reported as soon as the FIN has arrived
ReceiveRetry_EofOnFin(M, t, p, size) ==
    LET pcb == M.pcbs[p]
        remain == BUF_SIZE - pcb.rcv.wnd
        len == MIN(size, remain)
        copy == Finish([M EXCEPT !.pcbs[p].buf = SubSeq(@, len + 1, Len(@)),
                                 !.pcbs[p].rcv.wnd = U16(@ + len)],
                       t, Return("receive", p, len, 0, SubSeq(pcb.buf, 1, len)))
    IN
    IF pcb.state = TCP_PCB_STATE_ESTABLISHED
    THEN IF remain = 0
         THEN IF SleepRefused(M, p)
              THEN Finish(M, t, Return("receive", p, -1, EINTR, << >>))
              ELSE SleepPark(M, t, p, [IdleTask EXCEPT !.op = "receive",
                                                       !.size = size])
         ELSE copy
    ELSE IF pcb.state = TCP_PCB_STATE_CLOSE_WAIT
    THEN Finish(M, t, Return("receive", p, 0, 0, << >>))
    ELSE Finish(M, t, Return("receive", p, -1, 0, << >>))

\* label RETRY_RECEIVE
ReceiveRetry(M, t, p, size) ==
    LET pcb == M.pcbs[p]
        remain == BUF_SIZE - pcb.rcv.wnd
        len == MIN(size, remain)
        copy == Finish([M EXCEPT !.pcbs[p].buf = SubSeq(@, len + 1, Len(@)),
                                 !.pcbs[p].rcv.wnd = U16(@ + len)],
                       t, Return("receive", p, len, 0, SubSeq(pcb.buf, 1, len)))
    IN
    IF pcb.state = TCP_PCB_STATE_ESTABLISHED
    THEN IF remain = 0
         THEN IF SleepRefused(M, p)
              THEN Finish(M, t, Return("receive", p, -1, EINTR, << >>))
              ELSE SleepPark(M, t, p, [IdleTask EXCEPT !.op = "receive",
                                                       !.size = size])
         ELSE copy
    ELSE IF pcb.state = TCP_PCB_STATE_CLOSE_WAIT
    THEN IF remain # 0 THEN copy
         ELSE Finish(M, t, Return("receive", p, 0, 0, << >>))
    ELSE Finish(M, t, Return("receive", p, -1, 0, << >>))

tcp_receive(M, t, id, size) ==
    LET p == tcp_pcb_get(M.pcbs, id) IN
    IF p = NoPcb THEN Finish(M, t, Return("receive", NoPcb, -1, 0, << >>))
    ELSE ReceiveRetry(M, t, p, size)

ReceiveResume(M, t) ==
    LET p == M.tasks[t].pcb
        M1 == SleepWake(M, p)
    IN  IF SleepInterrupted(M, p)
        THEN Finish(M1, t, Return("receive", p, -1, EINTR, << >>))
        ELSE ReceiveRetry(M1, t, p, M.tasks[t].size)

(***************************************************************************)
(* Timers and the event handler                                            *)
(***************************************************************************)
RECURSIVE RetransmitSweep(_, _, _)
RetransmitSweep(M, p, tm) ==
    IF p > Len(M.pcbs) THEN M
    ELSE IF M.pcbs[p].state = TCP_PCB_STATE_FREE
    THEN RetransmitSweep(M, p + 1, tm)
    ELSE RetransmitSweep(tcp_retransmit_queue_emit_all(M, p, tm), p + 1, tm)

tcp_retransmit_timer(M, tm) == RetransmitSweep(M, 1, tm)

RECURSIVE UserTimeoutSweep(_, _, _)
UserTimeoutSweep(M, p, tm) ==
    IF p > Len(M.pcbs) \/ M.fault = "destroy_blocked" THEN M
    ELSE IF InState(M.pcbs[p], {TCP_PCB_STATE_FREE, TCP_PCB_STATE_TIME_WAIT})
    THEN UserTimeoutSweep(M, p + 1, tm)
    ELSE IF (tm - M.pcbs[p].start_time) \div 1000 >= TCP_USER_TIMEOUT_TIME
    THEN LET M1 == tcp_retransmit_queue_emit_all(M, p, tm)
         IN  UserTimeoutSweep(
                 tcp_pcb_release([M1 EXCEPT !.pcbs[p].state = TCP_PCB_STATE_CLOSED], p),
                 p + 1, tm)
    ELSE UserTimeoutSweep(M, p + 1, tm)

tcp_user_timeout(M, tm) == UserTimeoutSweep(M, 1, tm)

\* TimeWaitSweep with the fault that the PCB is kept for one MSL only
RECURSIVE TimeWaitSweep_OneMsl(_, _, _)
TimeWaitSweep_OneMsl(M, p, tm) ==
    IF p > Len(M.pcbs) \/ M.fault = "destroy_blocked" THEN M
    ELSE IF M.pcbs[p].state # TCP_PCB_STATE_TIME_WAIT
    THEN TimeWaitSweep_OneMsl(M, p + 1, tm)
    ELSE IF (tm - M.pcbs[p].time_wait) \div 1000 >= TCP_MSL
    THEN TimeWaitSweep_OneMsl(
             tcp_pcb_release([M EXCEPT !.pcbs[p].state = TCP_PCB_STATE_CLOSED], p),
             p + 1, tm)
    ELSE TimeWaitSweep_OneMsl(M, p + 1, tm)

RECURSIVE TimeWaitSweep(_, _, _)
TimeWaitSweep(M, p, tm) ==
    IF p > Len(M.pcbs) \/ M.fault = "destroy_blocked" THEN M
    ELSE IF M.pcbs[p].state # TCP_PCB_STATE_TIME_WAIT
    THEN TimeWaitSweep(M, p + 1, tm)
    ELSE IF (tm - M.pcbs[p].time_wait) \div 1000 >= 2 * TCP_MSL
    THEN TimeWaitSweep(
             tcp_pcb_release([M EXCEPT !.pcbs[p].state = TCP_PCB_STATE_CLOSED], p),
             p + 1, tm)
    ELSE TimeWaitSweep(M, p + 1, tm)

tcp_time_wait_timeout(M, tm) == TimeWaitSweep(M, 1, tm)

RECURSIVE EventSweep(_, _)
EventSweep(M, p) ==
    IF p > Len(M.pcbs) THEN M
    ELSE IF M.pcbs[p].state # TCP_PCB_STATE_FREE
    THEN EventSweep(sched_interrupt(M, p), p + 1)
    ELSE EventSweep(M, p + 1)

event_handler(M) == EventSweep(M, 1)

(***************************************************************************)
(* The machine state of the current state, and a step that installs one     *)
(***************************************************************************)
\* the entries on the retransmission queues of the table P
RECURSIVE QueueEntries(_)
QueueEntries(P) ==
    IF P = << >> THEN 0 ELSE Len(Head(P).queue) + QueueEntries(Tail(P))

\* heap: the queue entries that are allocated when a handler starts are the
\* ones on the queues
Cur == [pcbs |-> pcbs, tasks |-> tasks, ret |-> NoRet, out |-> << >>,
        estab |-> estab, fault |-> fault, libc |-> libc,
        heap |-> QueueEntries(pcbs)]

\* the retransmission queues stay within the modelled length
Bounded(M) == \A p \in DOMAIN M.pcbs : Len(M.pcbs[p].queue) <= MaxQueue

\* no thread is stuck and no memory has been overwritten
Running == fault = "none"

\* the slots a step has returned to FREE, each with the state it was in
Freed(M) == {<<p, pcbs[p].state>> : p \in
                {q \in DOMAIN pcbs : /\ pcbs[q].state # TCP_PCB_STATE_FREE
                                     /\ M.pcbs[q].state = TCP_PCB_STATE_FREE}}

\* the step changes nothing, sends nothing and returns nothing
Quiet(M) ==
    /\ M.pcbs = pcbs
    /\ M.tasks = tasks
    /\ M.estab = estab
    /\ M.fault = fault
    /\ M.out = << >>
    /\ M.ret = NoRet

Install(M, label) ==
    /\ Running
    /\ pcbs' = M.pcbs
    /\ tasks' = M.tasks
    /\ ret' = M.ret
    /\ out' = M.out
    /\ estab' = M.estab
    /\ fault' = M.fault
    /\ step' = IF Quiet(M) THEN [label EXCEPT !.op = "none", !.task = 0, !.flags = 0]
                ELSE [label EXCEPT !.freed = Freed(M)]
    /\ UNCHANGED libc

\* a step whose segments leave through a device towards a remote peer
Apply(M, label) == Install(M, label) /\ UNCHANGED <<wire, mutex, net>>

Label(op, t) == [op |-> op, task |-> t, flags |-> 0, freed |-> {}]
SegmentLabel(flags) == [Label("segment", 0) EXCEPT !.flags = flags]

Idle(t) == tasks[t].pc = "idle"

\* user tasks are interchangeable: a new command is issued by the idle task
\* with the lowest number
Caller(t) == Idle(t) /\ \A u \in DOMAIN tasks : u < t => ~Idle(u)

\* the endpoints of the one connection that is modelled
LocalEP == EP(1, 7)
ForeignEP == EP(2, 9)
LocalIss == 100        \* the value random() returns
PeerIss == 300         \* the peer's initial sequence number

\* the PCB a segment of the modelled connection is delivered to
Target == tcp_pcb_select(pcbs, LocalEP, ForeignEP)

\* tcp_input: the header fields become the segment_info record
Arrive(flags, seq, ack, wnd, data) ==
    tcp_segment_arrives(Cur,
        [seq |-> seq, ack |-> ack, len |-> SegLen(flags, data), wnd |-> wnd],
        flags, data, LocalEP, ForeignEP, LocalIss, now)

(***************************************************************************)
(* Connection life cycle: opens, closes, control segments, timers, events  *)
(***************************************************************************)
Instants == {0, 30000, 240000}

ControlFlags ==
    {TCP_FLG_SYN, TCP_FLG_SYN + TCP_FLG_ACK, TCP_FLG_ACK,
     TCP_FLG_FIN + TCP_FLG_ACK, TCP_FLG_RST, TCP_FLG_RST + TCP_FLG_ACK}

\* sequence and acknowledgment numbers the peer may put in a segment
PeerSeqs == PeerIss .. PeerIss + PeerSpan
SeqChoices ==
    IF Target = NoPcb THEN {PeerIss}
    ELSE {PeerIss} \cup ({pcbs[Target].rcv.nxt} \cap PeerSeqs)
AckChoices ==
    IF Target = NoPcb THEN {U32(LocalIss + 1)}
    ELSE {pcbs[Target].snd.una, pcbs[Target].snd.nxt, U32(pcbs[Target].snd.nxt + 1)}

Init ==
    /\ pcbs = [p \in Pcbs |-> ZeroPcb]
    /\ tasks = [t \in Tasks |-> IdleTask]
    /\ step = Label("init", 0)
    /\ ret = NoRet
    /\ out = << >>
    /\ now = 0
    /\ estab = [p \in Pcbs |-> NoSnap]
    /\ fault = "none"
    /\ libc \in {"ebusy", "blocks"}
    /\ wire = << >>
    /\ mutex = Unlocked
    /\ net = NetIdle

ControlSegment ==
    \E flags \in ControlFlags : \E seq \in SeqChoices :
    \E ack \in IF TCP_FLG_ISSET(flags, TCP_FLG_ACK) THEN AckChoices ELSE {0} :
        /\ U32(seq + SegLen(flags, << >>)) \in PeerSeqs
        /\ Bounded(Arrive(flags, seq, ack, BUF_SIZE, << >>))
        /\ Apply(Arrive(flags, seq, ack, BUF_SIZE, << >>), SegmentLabel(flags))
        /\ UNCHANGED now

Open(t) ==
    /\ Caller(t)
    /\ \E active \in {0, 1} : \E ipok \in BOOLEAN :
        /\ active = 0 => ipok
        /\ Bounded(tcp_open_rfc793(Cur, t, LocalEP,
                                   IF active = 1 THEN ForeignEP ELSE NoEP,
                                   active, LocalIss, now, ipok))
        /\ Apply(tcp_open_rfc793(Cur, t, LocalEP,
                                 IF active = 1 THEN ForeignEP ELSE NoEP,
                                 active, LocalIss, now, ipok),
                 Label("open", t))
    /\ UNCHANGED now

Close(t) ==
    /\ Caller(t)
    /\ Bounded(tcp_close(Cur, t, 0, now, TRUE))
    /\ Apply(tcp_close(Cur, t, 0, now, TRUE), Label("close", t))
    /\ UNCHANGED now

Receive(t) ==
    /\ Caller(t)
    /\ Apply(tcp_receive(Cur, t, 0, BUF_SIZE), Label("receive", t))
    /\ UNCHANGED now

\* a task that was woken gets the mutex and runs on from pthread_cond_wait
Resume(t) ==
    /\ tasks[t].pc = "woken"
    /\ Apply(CASE tasks[t].op = "open" -> OpenResume(Cur, t)
               [] tasks[t].op = "send" -> SendResume(Cur, t, now, TRUE)
               [] OTHER -> ReceiveResume(Cur, t),
             Label("resume", t))
    /\ UNCHANGED now

RetransmitTimer ==
    /\ Apply(tcp_retransmit_timer(Cur, now), Label("retransmit_timer", 0))
    /\ UNCHANGED now

UserTimeout ==
    /\ Apply(tcp_user_timeout(Cur, now), Label("user_timeout", 0))
    /\ UNCHANGED now

TimeWaitTimeout ==
    /\ Apply(tcp_time_wait_timeout(Cur, now), Label("time_wait_timeout", 0))
    /\ UNCHANGED now

\* net_raise_event: the event handler runs
Event ==
    /\ Apply(event_handler(Cur), Label("event", 0))
    /\ UNCHANGED now

\* the clock moves to a later instant; it is moved past the user timeout
\* only to let a PCB that waits in TIME_WAIT see 2*MSL pass
Advance ==
    /\ \E tm \in Instants :
        /\ tm > now
        /\ tm > TCP_USER_TIMEOUT_TIME * 1000 =>
               \E p \in DOMAIN pcbs : pcbs[p].state = TCP_PCB_STATE_TIME_WAIT
        /\ now' = tm
    /\ Apply(Cur, Label("advance", 0))

UserOpen == \E t \in Tasks : Open(t)
UserClose == \E t \in Tasks : Close(t)
UserReceive == \E t \in Tasks : Receive(t)
UserResume == \E t \in Tasks : Resume(t)

Next ==
    \/ ControlSegment
    \/ UserOpen
    \/ UserClose
    \/ UserReceive
    \/ UserResume
    \/ RetransmitTimer
    \/ UserTimeout
    \/ TimeWaitTimeout
    \/ Event
    \/ Advance

Spec == Init /\ [][Next]_vars

(***************************************************************************)
(* Data transfer on one established connection.  The initial state is the  *)
(* one an active open reaches: tcp_open_rfc793 sends the SYN and parks,    *)
(* the peer's SYN|ACK arrives, and the task resumes and returns.           *)
(***************************************************************************)
SendBytes == 20      \* bytes tcp_send is asked to send in all
PeerBytes == 24      \* bytes the peer sends in all

Windows == {0, 8, BUF_SIZE}      \* windows the peer advertises
PayloadLens == {0, 6, BUF_SIZE}  \* payload lengths the peer sends
SendLens == {8, 20}              \* len of a tcp_send call
RecvSizes == {0, 4, BUF_SIZE}    \* size of a tcp_receive call
AckPayloads == {0, BUF_SIZE}            \* payload lengths of the peer's acknowledgements

Fresh == [pcbs |-> [p \in Pcbs |-> ZeroPcb], tasks |-> [t \in Tasks |-> IdleTask],
          ret |-> NoRet, out |-> << >>, estab |-> [p \in Pcbs |-> NoSnap],
          fault |-> "none", libc |-> "ebusy", heap |-> 0]

Connected ==
    LET M1 == tcp_open_rfc793(Fresh, 1, LocalEP, ForeignEP, 1, LocalIss, 0, TRUE)
        M2 == tcp_segment_arrives([M1 EXCEPT !.out = << >>],
                  [seq |-> PeerIss, ack |-> U32(LocalIss + 1), len |-> 1,
                   wnd |-> BUF_SIZE],
                  TCP_FLG_SYN + TCP_FLG_ACK, << >>, LocalEP, ForeignEP, LocalIss, 0)
    IN  OpenResume([M2 EXCEPT !.out = << >>], 1)

\* the peer's byte stream: the byte with sequence number sq is its offset
\* from the peer's SYN
PeerData(seq, n) == [i \in 1..n |-> U32(seq + i - 1 + SeqMod - PeerIss)]

DataAcks ==
    IF Target = NoPcb THEN {U32(LocalIss + 1)}
    ELSE {pcbs[Target].snd.una, pcbs[Target].snd.nxt}
         \cup {a \in {U32(pcbs[Target].snd.una + 1)} : a <= pcbs[Target].snd.nxt}

\* no step of the data-transfer specifications releases a PCB, so what
\* pthread_cond_destroy does is immaterial to them
DataInit ==
    /\ pcbs = Connected.pcbs
    /\ tasks = Connected.tasks
    /\ step = Label("init", 0)
    /\ ret = NoRet
    /\ out = << >>
    /\ now = 0
    /\ estab = Connected.estab
    /\ fault = "none"
    /\ libc = "ebusy"
    /\ wire = << >>
    /\ mutex = Unlocked
    /\ net = NetIdle

\* the peer acknowledges and advertises a window, with or without data
AckSegment ==
    /\ Target # NoPcb
    /\ \E ack \in DataAcks : \E wnd \in Windows : \E dlen \in AckPayloads :
        LET seq == pcbs[Target].rcv.nxt
            flags == TCP_FLG_ACK + (IF dlen > 0 THEN TCP_FLG_PSH ELSE 0)
        IN  /\ seq + dlen <= PeerIss + 1 + PeerBytes
            /\ Apply(Arrive(flags, seq, ack, wnd, PeerData(seq, dlen)),
                     SegmentLabel(flags))
    /\ UNCHANGED now

\* the peer sends its next segment in order, with or without data and FIN
DataSegment ==
    /\ Target # NoPcb
    /\ \E dlen \in PayloadLens : \E fin \in {0, TCP_FLG_FIN} :
        LET seq == pcbs[Target].rcv.nxt
            flags == TCP_FLG_ACK + fin + (IF dlen > 0 THEN TCP_FLG_PSH ELSE 0)
            data == PeerData(seq, dlen)
        IN  /\ seq >= PeerIss
            /\ seq + SegLen(flags, data) <= PeerIss + 1 + PeerBytes + 1
            /\ Apply(Arrive(flags, seq, pcbs[Target].snd.nxt, BUF_SIZE, data),
                     SegmentLabel(flags))
    /\ UNCHANGED now

Send(t) ==
    /\ Caller(t)
    /\ \E len \in SendLens :
        /\ pcbs[1].snd.nxt + len <= LocalIss + 1 + SendBytes
        /\ Apply(tcp_send(Cur, t, 0, len, now, TRUE), Label("send", t))
    /\ UNCHANGED now

ReceiveSome(t) ==
    /\ Caller(t)
    /\ \E size \in RecvSizes :
        Apply(tcp_receive(Cur, t, 0, size), Label("receive", t))
    /\ UNCHANGED now

UserSend == \E t \in Tasks : Send(t)
UserReceiveSome == \E t \in Tasks : ReceiveSome(t)

\* sending side: tcp_send against the peer's acknowledgements and windows
SendNext ==
    \/ AckSegment
    \/ UserSend
    \/ UserResume

SpecSend == DataInit /\ [][SendNext]_vars

\* receiving side: tcp_receive against the peer's data and FIN
RecvNext ==
    \/ DataSegment
    \/ UserReceiveSome
    \/ UserResume

SpecRecv == DataInit /\ [][RecvNext]_vars

(***************************************************************************)
(* Two endpoints of this stack connected through the loopback device: the  *)
(* server's PCB and the client's PCB are slots of the same table, and a    *)
(* segment either of them sends is queued by the device and delivered to   *)
(* tcp_input later, in order.  Task 1 is the sender (client), task 2 the   *)
(* receiver (server).  The initial state is the one the handshake reaches. *)
(***************************************************************************)
FlowSlots == 2       \* PCB slots in the table
FlowLen == 64        \* bytes the sender writes with one tcp_send
FlowInstants == {0, 1000}

Sender == 1
Receiver == 2
ServerEP == EP(1, 7)
ClientEP == EP(1, 9)

FlowFresh == [pcbs |-> [p \in 1..FlowSlots |-> ZeroPcb],
              tasks |-> [t \in {Sender, Receiver} |-> IdleTask],
              ret |-> NoRet, out |-> << >>,
              estab |-> [p \in 1..FlowSlots |-> NoSnap],
              fault |-> "none", libc |-> "ebusy", heap |-> 0]

\* loopback_transmit, the device's interrupt handler, ip_input and tcp_input:
\* the segment reaches tcp_segment_arrives with the endpoints exchanged
Loopback(M, sg, iss, tm) ==
    tcp_segment_arrives([M EXCEPT !.ret = NoRet, !.out = << >>],
        [seq |-> sg.seq, ack |-> sg.ack, len |-> SegLen(sg.flg, sg.data),
         wnd |-> sg.wnd],
        sg.flg, sg.data, sg.foreign, sg.local, iss, tm)

\* the segment M has just sent goes through the device
LoopbackFirst(M, iss, tm) == Loopback(M, M.out[1], iss, tm)

FlowConnected ==
    LET M1 == tcp_open_rfc793(FlowFresh, Receiver, ServerEP, NoEP, 0, PeerIss, 0, TRUE)
        M2 == tcp_open_rfc793([M1 EXCEPT !.out = << >>], Sender, ClientEP, ServerEP,
                              1, LocalIss, 0, TRUE)
        M3 == LoopbackFirst(M2, PeerIss, 0)     \* SYN
        M4 == LoopbackFirst(M3, PeerIss, 0)     \* SYN|ACK
        M5 == LoopbackFirst(M4, PeerIss, 0)     \* ACK
        M6 == OpenResume([M5 EXCEPT !.out = << >>], Sender)
    IN  OpenResume(M6, Receiver)

ServerPcb == tcp_pcb_select(pcbs, ServerEP, ClientEP)
ClientPcb == tcp_pcb_select(pcbs, ClientEP, ServerEP)

FlowInit ==
    /\ \E C \in {FlowConnected} :
        /\ pcbs = C.pcbs
        /\ tasks = C.tasks
        /\ estab = C.estab
    /\ step = Label("init", 0)
    /\ ret = NoRet
    /\ out = << >>
    /\ now = 0
    /\ fault = "none"
    /\ libc \in {"ebusy", "blocks"}
    /\ wire = << >>
    /\ mutex = Unlocked
    /\ net = NetIdle

\* a step whose segments leave through the loopback device
Transmit(M, label, rest) ==
    Install(M, label) /\ wire' = rest \o M.out /\ UNCHANGED <<mutex, net>>

FlowSend ==
    /\ Idle(Sender)
    /\ ClientPcb # NoPcb
    /\ pcbs[ClientPcb].snd.nxt = U32(LocalIss + 1)
    /\ Transmit(tcp_send(Cur, Sender, tcp_pcb_id(ClientPcb), FlowLen, now, TRUE),
                Label("send", Sender), wire)
    /\ UNCHANGED now

FlowReceive ==
    /\ Idle(Receiver)
    /\ ServerPcb # NoPcb
    /\ Transmit(tcp_receive(Cur, Receiver, tcp_pcb_id(ServerPcb), BUF_SIZE),
                Label("receive", Receiver), wire)
    /\ UNCHANGED now

FlowResume ==
    /\ \E t \in DOMAIN tasks :
        /\ tasks[t].pc = "woken"
        /\ Transmit(CASE tasks[t].op = "open" -> OpenResume(Cur, t)
                      [] tasks[t].op = "send" -> SendResume(Cur, t, now, TRUE)
                      [] OTHER -> ReceiveResume(Cur, t),
                    Label("resume", t), wire)
    /\ UNCHANGED now

FlowDeliver ==
    /\ wire # << >>
    /\ Transmit(Loopback(Cur, Head(wire), PeerIss, now),
                SegmentLabel(Head(wire).flg), Tail(wire))
    /\ UNCHANGED now

FlowRetransmit ==
    /\ Transmit(tcp_retransmit_timer(Cur, now), Label("retransmit_timer", 0), wire)
    /\ UNCHANGED now

FlowAdvance ==
    /\ \E tm \in FlowInstants : tm > now /\ now' = tm
    /\ Transmit(Cur, Label("advance", 0), wire)

FlowNext ==
    \/ FlowSend
    \/ FlowReceive
    \/ FlowResume
    \/ FlowDeliver
    \/ FlowRetransmit
    \/ FlowAdvance

\* every thread of the program keeps running: the device's interrupt thread
\* delivers what is queued, a woken task continues, the receiver reads again
SpecFlow ==
    /\ FlowInit /\ [][FlowNext]_vars
    /\ WF_vars(FlowSend) /\ WF_vars(FlowReceive) /\ WF_vars(FlowResume)
    /\ WF_vars(FlowDeliver) /\ WF_vars(FlowRetransmit)

(***************************************************************************)
(* One scheduling context and the tasks that use it: the context of the    *)
(* connected PCB, tasks that call sched_sleep on it and continue after the *)
(* wait, and the callers of sched_wakeup and sched_interrupt.              *)
(***************************************************************************)
SchedTasks == 3      \* tasks that use the context

SchedCtx == 1        \* the slot whose context is used

\* sched_sleep up to the wait: the call fails at once, or the task parks
SleepEnter(M, t, p) ==
    IF SleepRefused(M, p)
    THEN Finish(M, t, Return("sleep", p, -1, EINTR, << >>))
    ELSE SleepPark(M, t, p, [IdleTask EXCEPT !.op = "sleep"])

\* sched_sleep after the wait
SleepLeave(M, t) ==
    LET p == M.tasks[t].pcb
        M1 == SleepWake(M, p)
    IN  IF SleepInterrupted(M, p)
        THEN Finish(M1, t, Return("sleep", p, -1, EINTR, << >>))
        ELSE Finish(M1, t, Return("sleep", p, 0, 0, << >>))

SchedInit ==
    /\ pcbs = Connected.pcbs
    /\ tasks = [t \in 1..SchedTasks |-> IdleTask]
    /\ step = Label("init", 0)
    /\ ret = NoRet
    /\ out = << >>
    /\ now = 0
    /\ estab = Connected.estab
    /\ fault = "none"
    /\ libc \in {"ebusy", "blocks"}
    /\ wire = << >>
    /\ mutex = Unlocked
    /\ net = NetIdle

SchedSleep ==
    /\ \E t \in DOMAIN tasks :
        /\ Idle(t)
        /\ Apply(SleepEnter(Cur, t, SchedCtx), Label("sleep", t))
    /\ UNCHANGED now

SchedContinue ==
    /\ \E t \in DOMAIN tasks :
        /\ tasks[t].pc = "woken"
        /\ Apply(SleepLeave(Cur, t), Label("continue", t))
    /\ UNCHANGED now

SchedWakeup ==
    /\ Apply(sched_wakeup(Cur, SchedCtx), Label("wakeup", 0))
    /\ UNCHANGED now

SchedInterrupt ==
    /\ Apply(sched_interrupt(Cur, SchedCtx), Label("interrupt", 0))
    /\ UNCHANGED now

SchedNext ==
    \/ SchedSleep
    \/ SchedContinue
    \/ SchedWakeup
    \/ SchedInterrupt

SpecSched == SchedInit /\ [][SchedNext]_vars

(***************************************************************************)
(* C1: three-way handshake.  In every reachable state: a LISTEN PCB that   *)
(* is delivered a SYN is in SYN_RECEIVED afterwards; a passive             *)
(* SYN_RECEIVED PCB that is delivered the ACK of its SYN|ACK is in         *)
(* ESTABLISHED afterwards; a SYN_SENT PCB that is delivered a SYN|ACK      *)
(* whose ACK is acceptable is in ESTABLISHED afterwards; and whenever      *)
(* pcb->state = ESTABLISHED was assigned, snd.nxt = iss + 1 and            *)
(* rcv.nxt = irs + 1 held at that assignment.                              *)
(***************************************************************************)
StateAfter(M, p) == M.pcbs[p].state

C1_Handshake ==
    /\ \A p \in DOMAIN pcbs :
        estab[p].set => /\ estab[p].snd_nxt = U32(estab[p].iss + 1)
                        /\ estab[p].rcv_nxt = U32(estab[p].irs + 1)
    /\ (Running /\ Target # NoPcb) =>
        LET p == Target
            pcb == pcbs[p]
        IN  /\ pcb.state = TCP_PCB_STATE_LISTEN =>
                \A seq \in PeerSeqs : \A wnd \in {0, BUF_SIZE} :
                    StateAfter(Arrive(TCP_FLG_SYN, seq, 0, wnd, << >>), p)
                        = TCP_PCB_STATE_SYN_RECEIVED
            /\ (pcb.state = TCP_PCB_STATE_SYN_RECEIVED /\ pcb.active = 0) =>
                LET M == Arrive(TCP_FLG_ACK, pcb.rcv.nxt, pcb.snd.nxt, BUF_SIZE, << >>)
                IN  /\ StateAfter(M, p) = TCP_PCB_STATE_ESTABLISHED
                    /\ M.pcbs[p].snd.nxt = U32(pcb.iss + 1)
                    /\ M.pcbs[p].rcv.nxt = U32(pcb.irs + 1)
            /\ pcb.state = TCP_PCB_STATE_SYN_SENT =>
                \A seq \in PeerSeqs :
                    LET M == Arrive(TCP_FLG_SYN + TCP_FLG_ACK, seq, pcb.snd.nxt,
                                    BUF_SIZE, << >>)
                    IN  /\ StateAfter(M, p) = TCP_PCB_STATE_ESTABLISHED
                        /\ M.pcbs[p].snd.nxt = U32(pcb.iss + 1)
                        /\ M.pcbs[p].rcv.nxt = U32(seq + 1)
                        /\ M.pcbs[p].irs = seq

\* a segment has just moved a passive PCB into ESTABLISHED
C1_Witness ==
    \E p \in DOMAIN pcbs :
        /\ step.op = "segment"
        /\ step.flags = TCP_FLG_ACK
        /\ pcbs[p].state = TCP_PCB_STATE_ESTABLISHED
        /\ pcbs[p].active = 0
        /\ estab[p].set

\* a segment has just moved an active PCB into ESTABLISHED
C1_WitnessActive ==
    \E p \in DOMAIN pcbs :
        /\ step.op = "segment"
        /\ step.flags = TCP_FLG_SYN + TCP_FLG_ACK
        /\ pcbs[p].state = TCP_PCB_STATE_ESTABLISHED
        /\ pcbs[p].active = 1
        /\ estab[p].set

(***************************************************************************)
(* C2: whenever tcp_open_rfc793 returns, either it returns the id of a PCB *)
(* that is in ESTABLISHED at that moment, or it returns -1 and the slot it *)
(* had allocated (if tcp_pcb_alloc gave it one) is FREE at that moment.    *)
(***************************************************************************)
C2_OpenReturn ==
    ret.op = "open" =>
        IF ret.val # -1
        THEN /\ ret.val = tcp_pcb_id(ret.pcb)
             /\ pcbs[ret.pcb].state = TCP_PCB_STATE_ESTABLISHED
        ELSE ret.pcb # NoPcb => pcbs[ret.pcb].state = TCP_PCB_STATE_FREE

\* a parked tcp_open_rfc793 has resumed and returned -1 without an interrupt
C2_Witness ==
    /\ step.op = "resume"
    /\ ret.op = "open"
    /\ ret.val = -1
    /\ ret.errno = 0
    /\ ret.pcb # NoPcb

\* a parked tcp_open_rfc793 has resumed and returned the handle
C2_WitnessHandle ==
    /\ step.op = "resume"
    /\ ret.op = "open"
    /\ ret.val = 0

\* tcp_open_rfc793 has returned -1 because the wait was interrupted
C2_WitnessInterrupted ==
    /\ ret.op = "open"
    /\ ret.val = -1
    /\ ret.errno = EINTR

(***************************************************************************)
(* C3: in every reachable state, tcp_close called on an ESTABLISHED PCB    *)
(* hands one FIN|ACK segment to ip_output, leaves the PCB in FIN_WAIT1     *)
(* with snd.nxt one higher and returns 0; called on a CLOSE_WAIT PCB it    *)
(* does the same and leaves the PCB in LAST_ACK; called in any other state *)
(* (or on a FREE slot) it returns -1, hands no segment to ip_output and    *)
(* changes neither the PCB table nor any task's wait.                      *)
(***************************************************************************)
IsFinAck(M, p, before) ==
    /\ Len(M.out) = 1
    /\ M.out[1].flg = TCP_FLG_FIN + TCP_FLG_ACK
    /\ M.out[1].seq = before.snd.nxt
    /\ M.out[1].ack = before.rcv.nxt
    /\ M.out[1].data = << >>
    /\ M.pcbs[p].snd.nxt = U32(before.snd.nxt + 1)
    /\ M.ret.val = 0

C3_Close ==
    \A t \in DOMAIN tasks :
        LET p == tcp_pcb_get(pcbs, 0)
            M == tcp_close(Cur, t, 0, now, TRUE)
            st == IF p = NoPcb THEN TCP_PCB_STATE_FREE ELSE pcbs[p].state
        IN  (Running /\ Idle(t)) =>
            /\ M.ret.op = "close"
            /\ st = TCP_PCB_STATE_ESTABLISHED =>
                /\ IsFinAck(M, p, pcbs[p])
                /\ M.pcbs[p].state = TCP_PCB_STATE_FIN_WAIT1
            /\ st = TCP_PCB_STATE_CLOSE_WAIT =>
                /\ IsFinAck(M, p, pcbs[p])
                /\ M.pcbs[p].state = TCP_PCB_STATE_LAST_ACK
            /\ st \notin {TCP_PCB_STATE_ESTABLISHED, TCP_PCB_STATE_CLOSE_WAIT} =>
                /\ M.ret.val = -1
                /\ M.out = << >>
                /\ M.pcbs = pcbs
                /\ \A u \in DOMAIN tasks : u # t => M.tasks[u] = tasks[u]

\* tcp_close has just moved a CLOSE_WAIT PCB to LAST_ACK and sent its FIN|ACK
C3_Witness ==
    \E p \in DOMAIN pcbs :
        /\ step.op = "close"
        /\ ret.op = "close"
        /\ ret.val = 0
        /\ ret.pcb = p
        /\ pcbs[p].state = TCP_PCB_STATE_LAST_ACK
        /\ Len(out) = 1
        /\ out[1].flg = TCP_FLG_FIN + TCP_FLG_ACK

\* tcp_close has just been refused on a PCB that is in neither state
C3_WitnessRefused ==
    \E p \in DOMAIN pcbs :
        /\ step.op = "close"
        /\ ret.val = -1
        /\ ret.pcb = p
        /\ pcbs[p].state = TCP_PCB_STATE_FIN_WAIT2
        /\ out = << >>

(***************************************************************************)
(* C4: active close.  In every reachable state: a FIN_WAIT1 PCB that is     *)
(* delivered the peer's ACK of its FIN is in FIN_WAIT2 afterwards; a        *)
(* FIN_WAIT2 PCB that is delivered the peer's FIN is in TIME_WAIT           *)
(* afterwards, with time_wait set to the current time; and a PCB in         *)
(* TIME_WAIT is still in TIME_WAIT after any arriving segment, after the    *)
(* retransmit sweep, the user-timeout sweep and the event handler, and      *)
(* after a TIME_WAIT sweep that runs less than 2*MSL = 240 s after          *)
(* time_wait, while a TIME_WAIT sweep that runs 240 s or more after         *)
(* time_wait returns the slot to FREE.  The steps covered are segments,     *)
(* timers and the event handler; a user task that continues after a wait    *)
(* on the same slot is a step of another kind and is not covered here.      *)
(***************************************************************************)
StaysTimeWait(M, p) ==
    /\ M.pcbs[p].state = TCP_PCB_STATE_TIME_WAIT
    /\ M.pcbs[p].time_wait = pcbs[p].time_wait

C4_WitnessKept ==
    \E p \in DOMAIN pcbs :
        /\ pcbs[p].state = TCP_PCB_STATE_TIME_WAIT
        /\ pcbs[p].time_wait = 30000
        /\ now = 240000

(***************************************************************************)
(* C5: passive close.  In every reachable state: an ESTABLISHED PCB that   *)
(* is delivered the peer's FIN is in CLOSE_WAIT afterwards; tcp_close on a *)
(* CLOSE_WAIT PCB leaves it in LAST_ACK; a LAST_ACK PCB that is delivered  *)
(* an acceptable segment whose ACK equals snd.nxt is released (the slot is *)
(* FREE); and a LAST_ACK PCB that is delivered an acceptable ACK with      *)
(* another acknowledgment number is still in LAST_ACK, unchanged.          *)
(***************************************************************************)
C5_PassiveClose ==
    Running =>
    \A p \in DOMAIN pcbs :
        LET pcb == pcbs[p] IN
        /\ (pcb.state = TCP_PCB_STATE_ESTABLISHED /\ Target = p) =>
              \A ack \in {pcb.snd.una, pcb.snd.nxt} :
                  StateAfter(Arrive(TCP_FLG_FIN + TCP_FLG_ACK, pcb.rcv.nxt, ack,
                                    BUF_SIZE, << >>), p) = TCP_PCB_STATE_CLOSE_WAIT
        /\ (pcb.state = TCP_PCB_STATE_CLOSE_WAIT /\ tcp_pcb_id(p) = 0) =>
              \A t \in DOMAIN tasks :
                  Idle(t) => StateAfter(tcp_close(Cur, t, 0, now, TRUE), p)
                                 = TCP_PCB_STATE_LAST_ACK
        /\ (pcb.state = TCP_PCB_STATE_LAST_ACK /\ Target = p) =>
              /\ StateAfter(Arrive(TCP_FLG_ACK, pcb.rcv.nxt, pcb.snd.nxt,
                                   BUF_SIZE, << >>), p) = TCP_PCB_STATE_FREE
              /\ \A ack \in {pcb.snd.una, U32(pcb.snd.nxt + 1), 0} :
                    ack # pcb.snd.nxt =>
                        Arrive(TCP_FLG_ACK, pcb.rcv.nxt, ack, BUF_SIZE, << >>).pcbs[p]
                            = pcb

\* the ACK of our FIN has just released a PCB that was in LAST_ACK
C5_Witness ==
    /\ step.op = "segment"
    /\ step.flags = TCP_FLG_ACK
    /\ \E p \in DOMAIN pcbs : <<p, TCP_PCB_STATE_LAST_ACK>> \in step.freed

(***************************************************************************)
(* C6: tcp_send never puts more unacknowledged data in flight than the     *)
(* window the peer last advertised: after a step in which tcp_send has     *)
(* sent data, snd.nxt - snd.una is at most snd.wnd.                        *)
(***************************************************************************)
InFlight(pcb) == U32(pcb.snd.nxt + SeqMod - pcb.snd.una)

SentData ==
    /\ step.op \in {"send", "resume"}
    /\ \E i \in 1..Len(out) : out[i].data # << >>

C6_WithinWindow ==
    Running /\ SentData =>
        \A p \in DOMAIN pcbs :
            InState(pcbs[p], {TCP_PCB_STATE_ESTABLISHED, TCP_PCB_STATE_CLOSE_WAIT})
                => InFlight(pcbs[p]) <= pcbs[p].snd.wnd

\* tcp_send has sent data and the connection has more in flight than the window
C6_Exceeded ==
    /\ Running /\ SentData
    /\ \E p \in DOMAIN pcbs :
        /\ pcbs[p].state = TCP_PCB_STATE_ESTABLISHED
        /\ InFlight(pcbs[p]) > pcbs[p].snd.wnd

(***************************************************************************)
(* C7: tcp_receive returns 0 (end of stream) only when the PCB is in       *)
(* CLOSE_WAIT with an empty receive buffer; bytes buffered before the FIN  *)
(* are still returned in CLOSE_WAIT; a successful call returns the oldest  *)
(* buffered bytes (at most size), keeps the rest in order and adds the     *)
(* number returned to rcv.wnd.  ReceiveOutcome states this of one call     *)
(* that returned; C7_Receive states it of a call of any size, made or      *)
(* resumed in any reachable state, C7_ReceiveSized of a call of size >= 1. *)
(***************************************************************************)
ReceiveOutcome(M, p, size) ==
    LET old == pcbs[p]
        new == M.pcbs[p]
        n == M.ret.val
    IN  /\ n = 0 => /\ old.state = TCP_PCB_STATE_CLOSE_WAIT
                    /\ old.buf = << >>
        /\ (old.state = TCP_PCB_STATE_CLOSE_WAIT /\ old.buf # << >>) => n > 0
        /\ n >= 0 => /\ n <= size
                     /\ n <= Len(old.buf)
                     /\ M.ret.data = SubSeq(old.buf, 1, n)
                     /\ new.buf = SubSeq(old.buf, n + 1, Len(old.buf))
                     /\ M.ret.data \o new.buf = old.buf
                     /\ new.rcv.wnd = old.rcv.wnd + n
                     /\ new.state = old.state

ReceiveCalls(sizes) ==
    \A t \in DOMAIN tasks :
        /\ Idle(t) =>
            \A size \in sizes :
                LET M == tcp_receive(Cur, t, 0, size)
                IN  (M.ret.op = "receive" /\ M.ret.pcb # NoPcb)
                        => ReceiveOutcome(M, M.ret.pcb, size)
        /\ (tasks[t].pc = "woken" /\ tasks[t].op = "receive"
                /\ tasks[t].size \in sizes) =>
                LET M == ReceiveResume(Cur, t)
                IN  M.ret.op = "receive"
                        => ReceiveOutcome(M, M.ret.pcb, tasks[t].size)

C7_Receive == Running => ReceiveCalls(RecvSizes)

C7_ReceiveSized == Running => ReceiveCalls(RecvSizes \ {0})

\* a call in CLOSE_WAIT has returned part of the bytes buffered before the FIN
C7_Witness ==
    /\ step.op = "receive"
    /\ ret.op = "receive" /\ ret.val = 4 /\ Len(ret.data) = 4
    /\ pcbs[ret.pcb].state = TCP_PCB_STATE_CLOSE_WAIT
    /\ pcbs[ret.pcb].buf # << >>

\* a parked call has resumed in CLOSE_WAIT with nothing buffered and returned 0
C7_WitnessEof ==
    /\ step.op = "resume"
    /\ ret.op = "receive" /\ ret.val = 0
    /\ pcbs[ret.pcb].state = TCP_PCB_STATE_CLOSE_WAIT
    /\ pcbs[ret.pcb].buf = << >>

(***************************************************************************)
(* C8: flow control over the 16-byte receive buffer: the sender's          *)
(* tcp_send of 64 bytes eventually returns 64, the receiver reading 16     *)
(* bytes at a time.                                                        *)
(***************************************************************************)
SendReturnedAll == ret.op = "send" /\ ret.task = Sender /\ ret.val = FlowLen

C8_Flow == <>SendReturnedAll

\* where the transfer stops: the sender is parked in tcp_send with part of
\* the data sent, everything sent is acknowledged and read, the receiver is
\* parked in tcp_receive with its window fully open, and nothing is queued
C8_Stalled ==
    /\ Running
    /\ ClientPcb # NoPcb /\ ServerPcb # NoPcb
    /\ tasks[Sender].pc = "parked" /\ tasks[Sender].op = "send"
    /\ tasks[Sender].sent < FlowLen
    /\ tasks[Receiver].pc = "parked" /\ tasks[Receiver].op = "receive"
    /\ pcbs[ClientPcb].snd.una = pcbs[ClientPcb].snd.nxt
    /\ pcbs[ClientPcb].snd.wnd = 0
    /\ pcbs[ClientPcb].queue = << >>
    /\ pcbs[ServerPcb].rcv.wnd = BUF_SIZE
    /\ wire = << >>

(***************************************************************************)
(* C9: in every reachable state where exactly one task is parked on an     *)
(* ESTABLISHED PCB, in tcp_receive, and no other task waits on that PCB:   *)
(* the event handler wakes the task; its tcp_receive then returns -1 with  *)
(* EINTR and leaves the PCB in ESTABLISHED with the same buffer and        *)
(* sequence variables; and a tcp_receive called after that does not report *)
(* an interruption: with the buffer empty it parks.                        *)
(***************************************************************************)
SoleReceiver(t, p) ==
    /\ pcbs[p].state = TCP_PCB_STATE_ESTABLISHED
    /\ tasks[t].pc = "parked"
    /\ tasks[t].op = "receive"
    /\ tasks[t].pcb = p
    /\ \A u \in DOMAIN tasks : u # t => (Idle(u) \/ tasks[u].pcb # p)

SameConnection(a, b) ==
    /\ a.state = b.state
    /\ a.buf = b.buf
    /\ a.snd = b.snd
    /\ a.rcv = b.rcv
    /\ a.iss = b.iss
    /\ a.irs = b.irs

C9_InterruptedOnce ==
    Running =>
    \A p \in DOMAIN pcbs : \A t \in DOMAIN tasks :
        SoleReceiver(t, p) =>
            LET M1 == event_handler(Cur)
                M2 == ReceiveResume(M1, t)
                M3 == tcp_receive([M2 EXCEPT !.ret = NoRet], t, tcp_pcb_id(p),
                                  tasks[t].size)
            IN  /\ M1.tasks[t].pc = "woken"
                /\ M2.ret = [Return("receive", p, -1, EINTR, << >>) EXCEPT !.task = t]
                /\ M2.tasks[t] = IdleTask
                /\ SameConnection(M2.pcbs[p], pcbs[p])
                /\ M3.ret.errno # EINTR
                /\ pcbs[p].buf = << >> =>
                      /\ M3.ret = NoRet
                      /\ M3.tasks[t].pc = "parked"

\* the one task parked in tcp_receive has just returned -1 with EINTR
C9_Witness ==
    \E p \in DOMAIN pcbs :
        /\ step.op = "resume"
        /\ ret.op = "receive"
        /\ ret.val = -1
        /\ ret.errno = EINTR
        /\ ret.pcb = p
        /\ pcbs[p].state = TCP_PCB_STATE_ESTABLISHED
        /\ pcbs[p].ctx.interrupted = 0

(***************************************************************************)
(* C10: a sched_interrupt makes a task's sched_sleep fail with EINTR       *)
(* exactly once: when a task's sched_sleep has just failed with EINTR, the *)
(* same task's next sched_sleep (no interrupt in between) parks.           *)
(***************************************************************************)
C10_InterruptOnce ==
    Running =>
    \A t \in DOMAIN tasks :
        (step.op \in {"sleep", "continue"} /\ ret.op = "sleep" /\ ret.task = t
            /\ ret.errno = EINTR)
        => LET M == SleepEnter(Cur, t, ret.pcb)
           IN  /\ M.ret.errno # EINTR
               /\ M.tasks[t].pc = "parked"

\* a task's sched_sleep has failed and the context is still interrupted
C10_Sticky ==
    /\ Running
    /\ step.op \in {"sleep", "continue"} /\ ret.op = "sleep" /\ ret.errno = EINTR
    /\ pcbs[ret.pcb].ctx.interrupted # 0

(***************************************************************************)
(* C11: tcp_pcb_release on a PCB whose context still has parked tasks does *)
(* not reclaim the slot: in every reachable state, releasing a PCB that    *)
(* tasks are parked on wakes them and leaves the slot as it was, and no    *)
(* task is parked on a FREE slot.                                          *)
(***************************************************************************)
C11_ReleaseDefers ==
    Running =>
    \A p \in DOMAIN pcbs :
        /\ (pcbs[p].state # TCP_PCB_STATE_FREE /\ Parked(Cur, p) # {}) =>
              LET M == tcp_pcb_release(Cur, p)
              IN  /\ M.fault = "none"
                  /\ M.pcbs[p] = pcbs[p]
                  /\ \A t \in Parked(Cur, p) : M.tasks[t].pc = "woken"
        /\ pcbs[p].state = TCP_PCB_STATE_FREE => Parked(Cur, p) = {}

\* a slot has been zeroed while a task is parked on it
C11_Orphaned ==
    /\ Running
    /\ \E p \in DOMAIN pcbs :
        /\ <<p, TCP_PCB_STATE_LISTEN>> \in step.freed
        /\ pcbs[p].state = TCP_PCB_STATE_FREE
        /\ Parked(Cur, p) # {}

\* a thread is stuck in pthread_cond_destroy, holding the TCP mutex
C11_Stuck == fault = "destroy_blocked"

(***************************************************************************)
(* C12: an error the worker detects on a PCB while a task is parked on it  *)
(* (RST or SYN in a synchronized state, retransmission deadline, user      *)
(* timeout) moves the PCB to CLOSED and wakes the task, whose call then    *)
(* returns -1.  In every reachable state, for every task parked on a PCB   *)
(* in ESTABLISHED, FIN_WAIT1, FIN_WAIT2 or CLOSE_WAIT, each of these four  *)
(* steps leaves the task woken and its call, once continued, returns -1.   *)
(***************************************************************************)
Continue(M, t) ==
    CASE M.tasks[t].op = "open" -> OpenResume(M, t)
      [] M.tasks[t].op = "send" -> SendResume(M, t, now, TRUE)
      [] OTHER -> ReceiveResume(M, t)

TornDown(M, t) ==
    /\ M.fault = "none"
    /\ M.tasks[t].pc = "woken"
    /\ Continue(M, t).ret.val = -1
    /\ Continue(M, t).tasks[t].pc = "idle"

DeadlinePassed(pcb, tm) ==
    \E i \in 1..Len(pcb.queue) :
        (tm - pcb.queue[i].first) \div 1000 >= TCP_RETRANSMIT_DEADLINE

C12_ErrorWakes ==
    Running =>
    \A p \in DOMAIN pcbs : \A t \in Parked(Cur, p) :
        (Target = p
         /\ InState(pcbs[p], {TCP_PCB_STATE_ESTABLISHED, TCP_PCB_STATE_FIN_WAIT1,
                              TCP_PCB_STATE_FIN_WAIT2, TCP_PCB_STATE_CLOSE_WAIT}))
        => /\ TornDown(Arrive(TCP_FLG_RST, pcbs[p].rcv.nxt, 0, BUF_SIZE, << >>), t)
           /\ TornDown(Arrive(TCP_FLG_SYN, pcbs[p].rcv.nxt, 0, BUF_SIZE, << >>), t)
           /\ \A tm \in {i \in Instants : i >= now} :
                /\ DeadlinePassed(pcbs[p], tm)
                       => TornDown(tcp_retransmit_timer(Cur, tm), t)
                /\ (tm - pcbs[p].start_time) \div 1000 >= TCP_USER_TIMEOUT_TIME
                       => TornDown(tcp_user_timeout(Cur, tm), t)

\* a RST has torn down an ESTABLISHED PCB and the task parked on it in
\* tcp_receive is still parked
C12_LeftParked ==
    /\ Running
    /\ step.op = "segment" /\ TCP_FLG_ISSET(step.flags, TCP_FLG_RST)
    /\ \E p \in DOMAIN pcbs :
        /\ <<p, TCP_PCB_STATE_ESTABLISHED>> \in step.freed
        /\ \E t \in Parked(Cur, p) : tasks[t].op = "receive"

(***************************************************************************)
(* The TCP mutex, with the worker's critical section taken line by line.   *)
(* Tasks open actively and park in SYN_SENT.  The worker either processes  *)
(* a RST for the connection (tcp_input: lock; state = CLOSED; sched_wakeup;*)
(* tcp_pcb_release; unlock) or finds the SYN's retransmission deadline     *)
(* passed (tcp_retransmit_timer: lock; state = CLOSED; sched_wakeup;       *)
(* unlock).  A task takes the mutex, runs its command up to sched_sleep or *)
(* to its return, and gives the mutex up there; after a wake-up            *)
(* pthread_cond_wait takes the mutex again before the task continues.      *)
(***************************************************************************)
Hold(t) == [by |-> "task", task |-> t, job |-> "none", at |-> "idle", pcb |-> NoPcb]
WorkerAt(job, at, p) == [by |-> "worker", task |-> 0, job |-> job, at |-> at, pcb |-> p]

\* mutex_lock returns
MutexFree == mutex.by = "none"

\* variant: the wait returns without taking the mutex again
CondWaitReturns_NoMutex(t) == tasks[t].pc = "woken"

\* pthread_cond_wait returns: the task was woken and the mutex is free
CondWaitReturns(t) == tasks[t].pc = "woken" /\ MutexFree

LockInit == Init

Others == <<pcbs, tasks, step, ret, out, now, estab, fault, libc, wire, net>>

TaskLock ==
    \E t \in DOMAIN tasks :
        /\ Running /\ Caller(t) /\ MutexFree
        /\ mutex' = Hold(t)
        /\ UNCHANGED Others

TaskOpen ==
    \E t \in DOMAIN tasks :
        /\ mutex.by = "task" /\ mutex.task = t /\ tasks[t].pc = "idle"
        /\ Install(tcp_open_rfc793(Cur, t, LocalEP, ForeignEP, 1, LocalIss, now, TRUE),
                   Label("open", t))
        /\ mutex' = [mutex EXCEPT !.by = "none", !.task = 0]
        /\ UNCHANGED <<wire, now, net>>

TaskWake ==
    \E t \in DOMAIN tasks :
        /\ Running /\ CondWaitReturns(t) /\ mutex.by # "task"
        /\ mutex' = [mutex EXCEPT !.by = "task", !.task = t]
        /\ UNCHANGED Others

TaskContinue ==
    \E t \in DOMAIN tasks :
        /\ mutex.by = "task" /\ mutex.task = t /\ tasks[t].pc = "woken"
        /\ Install(Continue(Cur, t), Label("resume", t))
        /\ mutex' = [mutex EXCEPT !.by = "none", !.task = 0]
        /\ UNCHANGED <<wire, now, net>>

WorkerLock ==
    /\ Running /\ MutexFree
    /\ \E p \in DOMAIN pcbs :
        \/ /\ pcbs[p].state = TCP_PCB_STATE_SYN_SENT /\ Target = p
           /\ mutex' = WorkerAt("rst", "locked", p)
        \/ /\ pcbs[p].state # TCP_PCB_STATE_FREE /\ DeadlinePassed(pcbs[p], now)
           /\ mutex' = WorkerAt("deadline", "locked", p)
    /\ UNCHANGED Others

WorkerClose ==
    /\ mutex.by = "worker" /\ mutex.at = "locked"
    /\ Install([Cur EXCEPT !.pcbs[mutex.pcb].state = TCP_PCB_STATE_CLOSED],
               Label(mutex.job, 0))
    /\ mutex' = [mutex EXCEPT !.at = "closed"]
    /\ UNCHANGED <<wire, now, net>>

WorkerWakeup ==
    /\ mutex.by = "worker" /\ mutex.at = "closed"
    /\ Install(sched_wakeup(Cur, mutex.pcb), Label(mutex.job, 0))
    /\ mutex' = [mutex EXCEPT !.at = IF mutex.job = "rst" THEN "woken" ELSE "done"]
    /\ UNCHANGED <<wire, now, net>>

WorkerRelease ==
    /\ mutex.by = "worker" /\ mutex.at = "woken"
    /\ Install(tcp_pcb_release(Cur, mutex.pcb), Label(mutex.job, 0))
    /\ mutex' = [mutex EXCEPT !.at = "done"]
    /\ UNCHANGED <<wire, now, net>>

WorkerUnlock ==
    /\ Running
    /\ mutex.by = "worker" /\ mutex.at = "done"
    /\ mutex' = Unlocked
    /\ UNCHANGED Others

LockAdvance ==
    /\ Running
    /\ \E tm \in Instants : tm > now /\ tm <= TCP_USER_TIMEOUT_TIME * 1000 /\ now' = tm
    /\ UNCHANGED <<pcbs, tasks, step, ret, out, estab, fault, libc, wire, mutex, net>>

LockNext ==
    \/ TaskLock
    \/ TaskOpen
    \/ TaskWake
    \/ TaskContinue
    \/ WorkerLock
    \/ WorkerClose
    \/ WorkerWakeup
    \/ WorkerRelease
    \/ WorkerUnlock
    \/ LockAdvance

SpecLock == LockInit /\ [][LockNext]_vars

(***************************************************************************)
(* C13: a task woken by segment processing or by a timer sweep resumes     *)
(* only after the worker has finished that step and released the TCP       *)
(* mutex, and a parked task does not hold the mutex.  In every reachable   *)
(* state the worker is inside its critical section only while it holds the *)
(* mutex and no parked task holds the mutex; and in every step a task      *)
(* that was woken changes only while it holds the mutex.                   *)
(***************************************************************************)
LockHeld ==
    /\ mutex.at # "idle" => mutex.by = "worker"
    /\ \A t \in DOMAIN tasks :
        tasks[t].pc = "parked" => ~(mutex.by = "task" /\ mutex.task = t)

C13_WokenAfterUnlock ==
    /\ []LockHeld
    /\ [][\A t \in DOMAIN tasks :
            (tasks[t].pc = "woken" /\ tasks'[t] # tasks[t])
                => (mutex.by = "task" /\ mutex.task = t)]_vars

\* a task woken by the worker's RST processing has continued: the worker had
\* released the slot and the mutex, and the task's tcp_open_rfc793 returned -1
C13_Witness ==
    /\ step.op = "resume"
    /\ ret.op = "open" /\ ret.val = -1
    /\ mutex = Unlocked
    /\ \A p \in DOMAIN pcbs : pcbs[p].state = TCP_PCB_STATE_FREE

(***************************************************************************)
(* The interrupt thread and the protocols' receive queues.  Tasks hand     *)
(* frames to the loopback device at any time (loopback_transmit: device    *)
(* queue, device IRQ).  The interrupt thread waits in sigwait and          *)
(* dispatches one pending signal at a time: the device IRQ runs            *)
(* loopback_isr, which passes every queued frame to net_input_handler      *)
(* (protocol queue, SIGUSR1); SIGUSR1 runs net_softirq_handler, taken one  *)
(* queue entry at a time, and an input handler may itself transmit.        *)
(* SIGUSR1 is a standard signal: raised while pending it stays one pending *)
(* signal.  The device IRQ is a real-time signal: every raise is queued.   *)
(* The thread is taken while it runs (SIGHUP ends its loop and all         *)
(* dispatch with it).                                                       *)
(***************************************************************************)
MaxFrames == 3

\* net_init: arp_init registers first, ip_init second, each at the head
protocols == <<"ip", "arp">>
Registered == {protocols[i] : i \in DOMAIN protocols}
FrameTypes == Registered \cup {"other"}

LOOPBACK_QUEUE_LIMIT == 16

queue_push(q, e) == Append(q, e)
queue_pop(q) == [entry |-> Head(q), rest |-> Tail(q)]

intr_raise_irq(N, sig) ==
    IF sig = "SIGUSR1"
    THEN [N EXCEPT !.usr1 = TRUE, !.merged = @ \/ N.usr1]
    ELSE [N EXCEPT !.irq = @ + 1]

\* variant: the frame is queued and the soft IRQ is not raised
net_input_handler_NoRaise(N, f) ==
    IF f.type \in Registered
    THEN [N EXCEPT !.queue[f.type] = queue_push(@, f),
                   !.accepted[f.type] = Append(@, f)]
    ELSE N

net_input_handler(N, f) ==
    IF f.type \in Registered
    THEN intr_raise_irq([N EXCEPT !.queue[f.type] = queue_push(@, f),
                                  !.accepted[f.type] = Append(@, f)],
                        "SIGUSR1")
    ELSE N

loopback_transmit(N, type) ==
    IF Len(N.dev) >= LOOPBACK_QUEUE_LIMIT
    THEN N
    ELSE intr_raise_irq(
             [N EXCEPT !.dev = queue_push(@, [type |-> type, id |-> N.frames + 1]),
                       !.frames = @ + 1],
             "LOOPBACK_IRQ")

RECURSIVE loopback_isr(_)
loopback_isr(N) ==
    IF N.dev = << >>
    THEN N
    ELSE loopback_isr(net_input_handler([N EXCEPT !.dev = queue_pop(@).rest],
                                        queue_pop(N.dev).entry))

\* one turn of net_softirq_handler's loops: pass the next entry of the
\* current protocol's queue to its handler, or go on to the next protocol
net_softirq_handler(N) ==
    LET p == protocols[N.at]
    IN  IF N.queue[p] # << >>
        THEN [N EXCEPT !.queue[p] = queue_pop(@).rest,
                       !.handled[p] = Append(@, queue_pop(N.queue[p]).entry)]
        ELSE IF N.at < Len(protocols)
             THEN [N EXCEPT !.at = @ + 1]
             ELSE [N EXCEPT !.at = 0, !.pc = "sigwait"]

NetRest == <<pcbs, tasks, step, ret, out, now, estab, fault, libc, wire, mutex>>

SoftirqInit ==
    /\ pcbs = [p \in Pcbs |-> ZeroPcb]
    /\ tasks = [t \in Tasks |-> IdleTask]
    /\ step = Label("init", 0)
    /\ ret = NoRet
    /\ out = << >>
    /\ now = 0
    /\ estab = [p \in Pcbs |-> NoSnap]
    /\ fault = "none"
    /\ libc = "ebusy"
    /\ wire = << >>
    /\ mutex = Unlocked
    /\ net = [NetIdle EXCEPT !.queue = [p \in Registered |-> << >>],
                             !.handled = [p \in Registered |-> << >>],
                             !.accepted = [p \in Registered |-> << >>]]

NetTransmit ==
    /\ net.frames < MaxFrames
    /\ \E type \in FrameTypes : net' = loopback_transmit(net, type)
    /\ UNCHANGED NetRest

Sigwait ==
    /\ net.pc = "sigwait"
    /\ \/ /\ net.usr1
          /\ net' = [net EXCEPT !.usr1 = FALSE, !.pc = "softirq", !.at = 1]
       \/ /\ net.irq > 0
          /\ net' = [net EXCEPT !.irq = @ - 1, !.pc = "isr"]
    /\ UNCHANGED NetRest

DeviceIrq ==
    /\ net.pc = "isr"
    /\ net' = [loopback_isr(net) EXCEPT !.pc = "sigwait"]
    /\ UNCHANGED NetRest

SoftIrq ==
    /\ net.pc = "softirq"
    /\ \/ net' = net_softirq_handler(net)
       \/ /\ net.queue[protocols[net.at]] # << >>
          /\ net.frames < MaxFrames
          /\ \E type \in FrameTypes :
                net' = loopback_transmit(net_softirq_handler(net), type)
    /\ UNCHANGED NetRest

SoftirqNext ==
    \/ NetTransmit
    \/ Sigwait
    \/ DeviceIrq
    \/ SoftIrq

SpecSoftirq ==
    /\ SoftirqInit
    /\ [][SoftirqNext]_vars
    /\ WF_vars(Sigwait)
    /\ WF_vars(DeviceIrq)
    /\ WF_vars(SoftIrq)

(***************************************************************************)
(* C14: every frame net_input_handler accepts for a registered protocol is *)
(* eventually passed to that protocol's handler, exactly once, and the     *)
(* frames of one protocol are handled in the order they were queued, also  *)
(* when raises of the soft IRQ are merged and when raises arrive while the *)
(* thread is draining.  At all times the frames handled for a protocol     *)
(* followed by the frames in its queue are the frames accepted for it, in  *)
(* that order; and the i-th accepted frame is eventually handled.          *)
(***************************************************************************)
InOrder ==
    \A p \in Registered : net.accepted[p] = net.handled[p] \o net.queue[p]

C14_Delivered ==
    /\ []InOrder
    /\ \A p \in Registered : \A i \in 1..MaxFrames :
          (Len(net.accepted[p]) >= i) ~> (Len(net.handled[p]) >= i)

\* two frames of one protocol were handled after their raises had merged
C14_Witness ==
    /\ net.merged
    /\ \E p \in Registered : Len(net.handled[p]) >= 2 /\ net.queue[p] = << >>

\* a device IRQ was raised while the thread was draining
C14_WitnessDraining ==
    /\ net.pc = "softirq" /\ net.irq > 0
    /\ \E p \in Registered : net.handled[p] # << >>

(***************************************************************************)
(* The timer list.  During start-up the modules register their timers      *)
(* (net_timer_register); after net_run the 1 ms SIGALRM makes the          *)
(* interrupt thread call net_timer_handler, which walks the list from its  *)
(* head and calls the handler of every timer whose interval has passed.    *)
(***************************************************************************)
MaxTime == 2000
TimerSteps == {150, 1000}

\* struct timeval, from milliseconds
ToTv(ms) == [sec |-> ms \div 1000, usec |-> (ms % 1000) * 1000]
\* timercmp(a, b, <)
timercmp_lt(a, b) == IF a.sec = b.sec THEN a.usec < b.usec ELSE a.sec < b.sec

\* the timers the modules register, with their intervals
Handlers ==
    {[handler |-> "arp_timer_handler", interval |-> [sec |-> 1, usec |-> 0]],
     [handler |-> "tcp_retransmit_timer", interval |-> [sec |-> 0, usec |-> 100000]],
     [handler |-> "tcp_user_timeout", interval |-> [sec |-> 0, usec |-> 1000000]],
     [handler |-> "tcp_time_wait_timeout", interval |-> [sec |-> 0, usec |-> 1000000]]}

\* variant: the new timer is added at the tail of the list
net_timer_register_Tail(N, interval, handler, tm) ==
    [N EXCEPT !.timers = @ \o <<[interval |-> interval, last |-> tm, handler |-> handler]>>,
              !.order = Append(@, handler)]

net_timer_register(N, interval, handler, tm) ==
    [N EXCEPT !.timers = <<[interval |-> interval, last |-> tm, handler |-> handler]>> \o @,
              !.order = Append(@, handler)]

\* the loop of net_timer_handler from the i-th timer of the list on
RECURSIVE TimerLoop(_, _, _)
TimerLoop(N, i, tm) ==
    IF i > Len(N.timers)
    THEN N
    ELSE IF timercmp_lt(N.timers[i].interval, ToTv(tm - N.timers[i].last))
         THEN TimerLoop([N EXCEPT !.fired = Append(@, N.timers[i].handler),
                                  !.timers[i].last = tm],
                        i + 1, tm)
         ELSE TimerLoop(N, i + 1, tm)

net_timer_handler(N, tm) == TimerLoop([N EXCEPT !.fired = << >>], 1, tm)

TimerInit ==
    /\ pcbs = [p \in Pcbs |-> ZeroPcb]
    /\ tasks = [t \in Tasks |-> IdleTask]
    /\ step = Label("init", 0)
    /\ ret = NoRet
    /\ out = << >>
    /\ now = 0
    /\ estab = [p \in Pcbs |-> NoSnap]
    /\ fault = "none"
    /\ libc = "ebusy"
    /\ wire = << >>
    /\ mutex = Unlocked
    /\ net = [NetIdle EXCEPT !.pc = "init"]

TimerRegister ==
    /\ net.pc = "init"
    /\ \E h \in Handlers :
        /\ \A i \in DOMAIN net.order : net.order[i] # h.handler
        /\ net' = net_timer_register(net, h.interval, h.handler, now)
    /\ UNCHANGED NetRest

\* net_run: intr_run starts the interrupt thread
TimerRun ==
    /\ net.pc = "init"
    /\ net' = [net EXCEPT !.pc = "sigwait"]
    /\ UNCHANGED NetRest

TimerTick ==
    /\ net.pc = "sigwait"
    /\ net' = net_timer_handler(net, now)
    /\ UNCHANGED NetRest

TimerAdvance ==
    /\ net.pc = "sigwait"
    /\ \E d \in TimerSteps : now + d <= MaxTime /\ now' = now + d
    /\ UNCHANGED <<pcbs, tasks, step, ret, out, estab, fault, libc, wire, mutex, net>>

TimerNext ==
    \/ TimerRegister
    \/ TimerRun
    \/ TimerTick
    \/ TimerAdvance

SpecTimer == TimerInit /\ [][TimerNext]_vars

\* the position of handler h in the sequence s (0 when absent)
Position(s, h) ==
    IF \E i \in DOMAIN s : s[i] = h THEN CHOOSE i \in DOMAIN s : s[i] = h ELSE 0

(***************************************************************************)
(* C15: on a timer tick net_timer_handler services the eligible timers in  *)
(* the order in which they were registered: of two handlers called by the  *)
(* same tick, the one called first was registered first.                   *)
(***************************************************************************)
C15_RegistrationOrder ==
    \A i, j \in DOMAIN net.fired :
        i < j => Position(net.order, net.fired[i]) < Position(net.order, net.fired[j])

(***************************************************************************)
(* C15, amended: the eligible timers are serviced in the reverse of the    *)
(* order of registration: of two handlers called by the same tick, the one *)
(* called first was registered last.                                       *)
(***************************************************************************)
C15_ReverseOrder ==
    \A i, j \in DOMAIN net.fired :
        i < j => Position(net.order, net.fired[i]) > Position(net.order, net.fired[j])

\* one tick has called two handlers
C15_Witness == Len(net.fired) >= 2

(***************************************************************************)
(* C16: at each user-timeout sweep every PCB that is neither FREE nor      *)
(* TIME_WAIT and whose start_time is at least TCP_USER_TIMEOUT_TIME        *)
(* seconds old is moved to CLOSED and released, whatever its state; a PCB  *)
(* in TIME_WAIT is never released by this sweep.  In every reachable state *)
(* and at every instant from now on, tcp_user_timeout completes, leaves    *)
(* every such PCB's slot free and leaves a TIME_WAIT PCB as it is.         *)
(***************************************************************************)
TimedOut(pcb, tm) ==
    /\ ~InState(pcb, {TCP_PCB_STATE_FREE, TCP_PCB_STATE_TIME_WAIT})
    /\ (tm - pcb.start_time) \div 1000 >= TCP_USER_TIMEOUT_TIME

C16_UserTimeout ==
    Running =>
    \A tm \in {i \in Instants : i >= now} :
        LET M == tcp_user_timeout(Cur, tm)
        IN  \A p \in DOMAIN pcbs :
                /\ TimedOut(pcbs[p], tm) =>
                      /\ M.fault = "none"
                      /\ M.pcbs[p].state = TCP_PCB_STATE_FREE
                /\ pcbs[p].state = TCP_PCB_STATE_TIME_WAIT => M.pcbs[p] = pcbs[p]

\* the sweep has stopped inside tcp_pcb_release: the PCB is CLOSED and is
\* not released, a task is still parked on it
C16_NotReleased ==
    /\ step.op = "user_timeout"
    /\ fault = "destroy_blocked"
    /\ \E p \in DOMAIN pcbs :
        /\ pcbs[p].state = TCP_PCB_STATE_CLOSED
        /\ Parked(Cur, p) # {}

(***************************************************************************)
(* The PCB table with two slots: opens, closes, control segments of the    *)
(* one modelled connection, and the continuation of woken tasks.  The      *)
(* build is one whose pthread_cond_destroy returns EBUSY.                  *)
(***************************************************************************)
TableSlots == 2

TableInit ==
    /\ pcbs = [p \in 1..TableSlots |-> ZeroPcb]
    /\ tasks = [t \in Tasks |-> IdleTask]
    /\ step = Label("init", 0)
    /\ ret = NoRet
    /\ out = << >>
    /\ now = 0
    /\ estab = [p \in 1..TableSlots |-> NoSnap]
    /\ fault = "none"
    /\ libc = "ebusy"
    /\ wire = << >>
    /\ mutex = Unlocked
    /\ net = NetIdle

TableClose ==
    \E t \in Tasks : \E id \in 0..(TableSlots - 1) :
        /\ Caller(t)
        /\ Bounded(tcp_close(Cur, t, id, now, TRUE))
        /\ Apply(tcp_close(Cur, t, id, now, TRUE), Label("close", t))
        /\ UNCHANGED now

TableNext ==
    \/ UserOpen
    \/ TableClose
    \/ ControlSegment
    \/ UserResume

SpecTable == TableInit /\ [][TableNext]_vars

\* the test tcp_pcb_select applies to a PCB for a segment of (local, foreign)
\* whose both endpoints are given
ExactMatch(pcb, local, foreign) ==
    /\ pcb.state # TCP_PCB_STATE_FREE
    /\ (pcb.local.addr = IP_ADDR_ANY \/ pcb.local.addr = local.addr)
    /\ pcb.local.port = local.port
    /\ pcb.foreign.addr = foreign.addr /\ pcb.foreign.port = foreign.port

(***************************************************************************)
(* C17: in every reachable state of the PCB table at most one PCB that is  *)
(* not FREE matches a fully specified (local, foreign) tuple.              *)
(***************************************************************************)
C17_OnePcbPerTuple ==
    \A p, q \in DOMAIN pcbs :
        (ExactMatch(pcbs[p], LocalEP, ForeignEP) /\ ExactMatch(pcbs[q], LocalEP, ForeignEP))
            => p = q

\* two tasks have opened the same connection actively: two PCBs in SYN_SENT
\* hold the same local and foreign endpoints
C17_Duplicate ==
    /\ step.op = "open"
    /\ \E p, q \in DOMAIN pcbs :
        /\ p # q
        /\ pcbs[p].state = TCP_PCB_STATE_SYN_SENT /\ pcbs[q].state = TCP_PCB_STATE_SYN_SENT
        /\ pcbs[p].local = LocalEP /\ pcbs[q].local = LocalEP
        /\ pcbs[p].foreign = ForeignEP /\ pcbs[q].foreign = ForeignEP

(***************************************************************************)
(* C18: a segment that matches no PCB, or a PCB in CLOSED, is answered as  *)
(* follows and changes no PCB: with RST set nothing is sent; without ACK   *)
(* the reply is <SEQ=0><ACK=seg.seq+seg.len><CTL=RST|ACK>; otherwise it is *)
(* <SEQ=seg.ack><CTL=RST>.  Stated for every reachable state in which the  *)
(* connection has no PCB or a CLOSED one, for every control segment, with  *)
(* and without data.                                                       *)
(***************************************************************************)
NoConnection ==
    \/ Target = NoPcb
    \/ Target # NoPcb /\ pcbs[Target].state = TCP_PCB_STATE_CLOSED

C18_ClosedReset ==
    (Running /\ NoConnection) =>
    \A flags \in ControlFlags : \A seq \in PeerSeqs : \A ack \in AckChoices :
    \A data \in {<< >>, <<7, 8>>} :
        LET M == Arrive(flags, seq, ack, BUF_SIZE, data)
            len == Len(data) + (IF TCP_FLG_ISSET(flags, TCP_FLG_SYN) THEN 1 ELSE 0)
                             + (IF TCP_FLG_ISSET(flags, TCP_FLG_FIN) THEN 1 ELSE 0)
            reply == IF TCP_FLG_ISSET(flags, TCP_FLG_RST) THEN << >>
                     ELSE IF ~TCP_FLG_ISSET(flags, TCP_FLG_ACK)
                     THEN <<[seq |-> 0, ack |-> U32(seq + len),
                             flg |-> TCP_FLG_RST + TCP_FLG_ACK]>>
                     ELSE <<[seq |-> ack, ack |-> 0, flg |-> TCP_FLG_RST]>>
        IN  /\ M.pcbs = pcbs
            /\ M.tasks = tasks
            /\ M.fault = "none"
            /\ Len(M.out) = Len(reply)
            /\ \A i \in DOMAIN M.out :
                /\ M.out[i].seq = reply[i].seq
                /\ M.out[i].ack = reply[i].ack
                /\ M.out[i].flg = reply[i].flg
                /\ M.out[i].data = << >>
                /\ M.out[i].local = LocalEP /\ M.out[i].foreign = ForeignEP

\* a SYN for a connection without a PCB has just been answered by
\* <SEQ=0><ACK=seg.seq+1><CTL=RST|ACK>
C18_Witness ==
    /\ step.op = "segment" /\ step.flags = TCP_FLG_SYN
    /\ Target = NoPcb
    /\ Len(out) = 1
    /\ out[1].flg = TCP_FLG_RST + TCP_FLG_ACK /\ out[1].seq = 0
    /\ out[1].ack = PeerIss + 1

\* an ACK for a connection whose PCB is CLOSED has just been answered by
\* <SEQ=seg.ack><CTL=RST>
C18_WitnessClosed ==
    /\ step.op = "segment" /\ step.flags = TCP_FLG_ACK
    /\ Target # NoPcb /\ pcbs[Target].state = TCP_PCB_STATE_CLOSED
    /\ Len(out) = 1
    /\ out[1].flg = TCP_FLG_RST /\ out[1].ack = 0

(***************************************************************************)
(* C19: in SYN_SENT a segment with RST releases the PCB only if it also    *)
(* carries an acceptable ACK (iss < seg.ack <= snd.nxt); an RST segment    *)
(* without an acceptable ACK is dropped and leaves the PCB in SYN_SENT     *)
(* with its retransmission queue unchanged.  Stated for every reachable    *)
(* state whose PCB is in SYN_SENT, for RST segments with and without ACK.  *)
(***************************************************************************)
C19_ResetNeedsAck ==
    (Running /\ Target # NoPcb) =>
    (pcbs[Target].state = TCP_PCB_STATE_SYN_SENT =>
        \A flags \in {TCP_FLG_RST, TCP_FLG_RST + TCP_FLG_ACK} :
        \A seq \in PeerSeqs :
        \A ack \in IF TCP_FLG_ISSET(flags, TCP_FLG_ACK) THEN AckChoices ELSE {0} :
            LET M == Arrive(flags, seq, ack, BUF_SIZE, << >>)
                acceptableAck == /\ TCP_FLG_ISSET(flags, TCP_FLG_ACK)
                                 /\ pcbs[Target].iss < ack
                                 /\ ack <= pcbs[Target].snd.nxt
            IN  ~acceptableAck => M.pcbs[Target] = pcbs[Target])

\* a segment with RST and without ACK has just released a PCB that was in
\* SYN_SENT
C19_ReleasedByBareReset ==
    /\ step.op = "segment" /\ step.flags = TCP_FLG_RST
    /\ \E p \in DOMAIN pcbs :
        /\ <<p, TCP_PCB_STATE_SYN_SENT>> \in step.freed
        /\ pcbs[p].state = TCP_PCB_STATE_FREE

(***************************************************************************)
(* C20: in the synchronized states a segment with payload passes the       *)
(* sequence check only if its whole range [seg.seq, seg.seq+seg.len) lies  *)
(* inside the receive window [rcv.nxt, rcv.nxt+rcv.wnd); a segment that    *)
(* only partly overlaps the window is unacceptable, elicits a bare ACK     *)
(* when it has no RST, and leaves the PCB unchanged.  Stated for every     *)
(* reachable state of a connection, for data segments that start before,   *)
(* at and after rcv.nxt.                                                   *)
(***************************************************************************)
C20_WholeInWindow ==
    (Running /\ Target # NoPcb) =>
    (InState(pcbs[Target], {TCP_PCB_STATE_ESTABLISHED, TCP_PCB_STATE_CLOSE_WAIT}) =>
        \A dlen \in PayloadLens \ {0} :
        \A seq \in {pcbs[Target].rcv.nxt - 2, pcbs[Target].rcv.nxt,
                    pcbs[Target].rcv.nxt + 2} :
            LET pcb == pcbs[Target]
                M == Arrive(TCP_FLG_ACK + TCP_FLG_PSH, seq, pcb.snd.nxt, BUF_SIZE,
                            PeerData(seq, dlen))
                inside == pcb.rcv.nxt <= seq /\ seq + dlen <= pcb.rcv.nxt + pcb.rcv.wnd
            IN  ~inside =>
                    /\ M.fault = "none"
                    /\ M.pcbs[Target] = pcb
                    /\ Len(M.out) = 1
                    /\ M.out[1].flg = TCP_FLG_ACK /\ M.out[1].data = << >>)

\* a data segment that started at rcv.nxt and ended beyond the window has
\* been accepted and copied past the end of pcb->buf
C20_Overrun ==
    /\ step.op = "segment"
    /\ fault = "buffer_overrun"
    /\ \E p \in DOMAIN pcbs : pcbs[p].state = TCP_PCB_STATE_ESTABLISHED

(***************************************************************************)
(* C21: in every reachable state of a PCB that is not FREE, rcv.wnd is at  *)
(* most the size of the receive buffer and, once the window has been       *)
(* opened, the buffer holds sizeof(buf) - rcv.wnd bytes; the text step in  *)
(* ESTABLISHED never writes past the end of the buffer, for every segment  *)
(* that passes the sequence check.                                         *)
(***************************************************************************)
C21_BufferBounds ==
    /\ fault # "buffer_overrun"
    /\ \A p \in DOMAIN pcbs :
        pcbs[p].state # TCP_PCB_STATE_FREE =>
            /\ 0 <= pcbs[p].rcv.wnd /\ pcbs[p].rcv.wnd <= BUF_SIZE
            /\ InState(pcbs[p], {TCP_PCB_STATE_ESTABLISHED, TCP_PCB_STATE_CLOSE_WAIT})
                  => Len(pcbs[p].buf) = BUF_SIZE - pcbs[p].rcv.wnd

\* after a data segment that was accepted although it ended beyond the
\* window, rcv.wnd has wrapped around below zero
C21_WindowWrapped ==
    /\ step.op = "segment"
    /\ \E p \in DOMAIN pcbs :
        /\ pcbs[p].state = TCP_PCB_STATE_ESTABLISHED
        /\ pcbs[p].rcv.wnd > BUF_SIZE

(***************************************************************************)
(* C22: an RST segment with seg.seq = rcv.nxt that arrives at a PCB in     *)
(* CLOSING, LAST_ACK or TIME_WAIT moves the PCB to CLOSED and releases it, *)
(* and nothing is sent.                                                    *)
(***************************************************************************)
C22_ResetReleases ==
    (Running /\ Target # NoPcb) =>
    (InState(pcbs[Target], {TCP_PCB_STATE_CLOSING, TCP_PCB_STATE_LAST_ACK,
                            TCP_PCB_STATE_TIME_WAIT}) =>
        LET M == Arrive(TCP_FLG_RST, pcbs[Target].rcv.nxt, 0, BUF_SIZE, << >>)
        IN  /\ M.pcbs[Target].state = TCP_PCB_STATE_FREE
            /\ M.out = << >>)

\* a PCB in TIME_WAIT, or in CLOSING, that such an RST leaves as it is
C22_ResetIgnored ==
    /\ Running /\ Target # NoPcb
    /\ InState(pcbs[Target], {TCP_PCB_STATE_CLOSING, TCP_PCB_STATE_TIME_WAIT})
    /\ pcbs[Target].rcv.wnd > 0
    /\ Arrive(TCP_FLG_RST, pcbs[Target].rcv.nxt, 0, BUF_SIZE, << >>).pcbs = pcbs

(***************************************************************************)
(* Opening only: active and passive opens, the control segments of the     *)
(* peer and the continuation of woken tasks, with room on the              *)
(* retransmission queue for the SYN of an active open and the SYN,ACK that *)
(* answers the peer's SYN (simultaneous open).                             *)
(***************************************************************************)
SimulQueue == 2

SimulOpen ==
    \E t \in Tasks : \E active \in {0, 1} :
        /\ Caller(t)
        /\ Apply(tcp_open_rfc793(Cur, t, LocalEP,
                                 IF active = 1 THEN ForeignEP ELSE NoEP,
                                 active, LocalIss, now, TRUE),
                 Label("open", t))
        /\ UNCHANGED now

SimulSegment ==
    \E flags \in ControlFlags : \E seq \in SeqChoices :
    \E ack \in IF TCP_FLG_ISSET(flags, TCP_FLG_ACK) THEN AckChoices ELSE {0} :
        /\ U32(seq + SegLen(flags, << >>)) \in PeerSeqs
        /\ \A p \in DOMAIN pcbs :
              Len(Arrive(flags, seq, ack, BUF_SIZE, << >>).pcbs[p].queue) <= SimulQueue
        /\ Apply(Arrive(flags, seq, ack, BUF_SIZE, << >>), SegmentLabel(flags))
        /\ UNCHANGED now

SimulNext ==
    \/ SimulOpen
    \/ SimulSegment
    \/ UserResume

SpecSimul == Init /\ [][SimulNext]_vars

(***************************************************************************)
(* C23: an acceptable RST that arrives in SYN_RECEIVED returns a PCB that  *)
(* was opened passively to LISTEN, and moves a PCB that was opened         *)
(* actively (simultaneous open) to CLOSED and releases it.                 *)
(***************************************************************************)
C23_ResetInSynReceived ==
    (Running /\ Target # NoPcb) =>
    (pcbs[Target].state = TCP_PCB_STATE_SYN_RECEIVED =>
        \A flags \in {TCP_FLG_RST, TCP_FLG_RST + TCP_FLG_ACK} :
            LET M == Arrive(flags, pcbs[Target].rcv.nxt, pcbs[Target].snd.nxt,
                            BUF_SIZE, << >>)
            IN  IF pcbs[Target].active = 0
                THEN /\ M.fault = "none"
                     /\ M.pcbs[Target].state = TCP_PCB_STATE_LISTEN
                ELSE /\ M.fault = "none"
                     /\ M.pcbs[Target].state = TCP_PCB_STATE_FREE)

\* the RST has arrived for an actively opened PCB in SYN_RECEIVED: the PCB
\* is CLOSED and not released, the opening task is still parked on it
C23_RefusedNotReleased ==
    /\ step.op = "segment" /\ TCP_FLG_ISSET(step.flags, TCP_FLG_RST)
    /\ fault = "destroy_blocked"
    /\ \E p \in DOMAIN pcbs :
        /\ pcbs[p].state = TCP_PCB_STATE_CLOSED /\ pcbs[p].active = 1
        /\ pcbs[p].irs = PeerIss
        /\ \E t \in Parked(Cur, p) : tasks[t].op = "open"

(***************************************************************************)
(* C24: when an acceptable RST arrives in ESTABLISHED, FIN_WAIT1,          *)
(* FIN_WAIT2 or CLOSE_WAIT, when an acceptable SYN arrives in one of these *)
(* states, or when the user timeout fires, the retransmission queue is     *)
(* flushed: none of the queued segments is transmitted as part of that     *)
(* handling.  Stated for every reachable state, with the event taking      *)
(* place now or one second later.                                          *)
(***************************************************************************)
C24_FlushSendsNothing ==
    (Running /\ Target # NoPcb) =>
    \A tm \in {now, now + 1000} :
        /\ InState(pcbs[Target], {TCP_PCB_STATE_ESTABLISHED, TCP_PCB_STATE_FIN_WAIT1,
                                  TCP_PCB_STATE_FIN_WAIT2, TCP_PCB_STATE_CLOSE_WAIT}) =>
              \A flags \in {TCP_FLG_RST, TCP_FLG_SYN} :
                  tcp_segment_arrives(Cur,
                      [seq |-> pcbs[Target].rcv.nxt, ack |-> 0,
                       len |-> SegLen(flags, << >>), wnd |-> BUF_SIZE],
                      flags, << >>, LocalEP, ForeignEP, LocalIss, tm).out = << >>
        /\ (tm - pcbs[Target].start_time) \div 1000 >= TCP_USER_TIMEOUT_TIME =>
              tcp_user_timeout(Cur, tm).out = << >>

\* a PCB in FIN_WAIT1 whose FIN is on the retransmission queue: an RST that
\* arrives one second later makes the code send the FIN once more
C24_ResentOnReset ==
    /\ Running /\ Target # NoPcb
    /\ pcbs[Target].state = TCP_PCB_STATE_FIN_WAIT1
    /\ Len(pcbs[Target].queue) = 1
    /\ LET M == tcp_segment_arrives(Cur,
                    [seq |-> pcbs[Target].rcv.nxt, ack |-> 0, len |-> 0, wnd |-> BUF_SIZE],
                    TCP_FLG_RST, << >>, LocalEP, ForeignEP, LocalIss, now + 1000)
       IN  /\ Len(M.out) = 1
           /\ TCP_FLG_ISSET(M.out[1].flg, TCP_FLG_FIN)
           /\ M.out[1].seq = pcbs[Target].queue[1].seq

(***************************************************************************)
(* C25: releasing a PCB releases every retransmission entry it owns.       *)
(* Whenever the handling of a segment, a user timeout or a TIME_WAIT       *)
(* timeout returns a slot to FREE, the entries still allocated afterwards  *)
(* are exactly the ones on the queues of the table, and no entry is on the *)
(* queue of a FREE slot.                                                   *)
(***************************************************************************)
ReleasedClean(M) ==
    (\E p \in DOMAIN pcbs : /\ pcbs[p].state # TCP_PCB_STATE_FREE
                            /\ M.pcbs[p].state = TCP_PCB_STATE_FREE)
        => /\ M.heap = QueueEntries(M.pcbs)
           /\ \A p \in DOMAIN pcbs :
                 M.pcbs[p].state = TCP_PCB_STATE_FREE => M.pcbs[p].queue = << >>

C25_ReleaseFreesEntries ==
    Running =>
    /\ ReleasedClean(tcp_user_timeout(Cur, now))
    /\ ReleasedClean(tcp_time_wait_timeout(Cur, now))
    /\ Target # NoPcb =>
          \A flags \in ControlFlags : \A seq \in {0, pcbs[Target].rcv.nxt} :
              ReleasedClean(Arrive(flags, seq, pcbs[Target].snd.nxt, BUF_SIZE, << >>))

\* a PCB in SYN_SENT has its SYN on the queue; the peer's RST|ACK releases
\* the slot and the entry is still allocated, on no queue
C25_EntryLeaked ==
    /\ Running /\ Target # NoPcb
    /\ pcbs[Target].state = TCP_PCB_STATE_SYN_SENT
    /\ Len(pcbs[Target].queue) = 1
    /\ LET M == Arrive(TCP_FLG_RST + TCP_FLG_ACK, 0, pcbs[Target].snd.nxt, BUF_SIZE, << >>)
       IN  /\ M.pcbs[Target].state = TCP_PCB_STATE_FREE
           /\ M.heap = 1
           /\ QueueEntries(M.pcbs) = 0

(***************************************************************************)
(* C26: an ACK that arrives in ESTABLISHED, FIN_WAIT1, FIN_WAIT2 or        *)
(* CLOSE_WAIT with snd.una < seg.ack <= snd.nxt and with the window-update *)
(* condition true (snd.wl1 < seg.seq, or snd.wl1 = seg.seq and             *)
(* snd.wl2 <= seg.ack) leaves snd.wnd = seg.wnd, snd.wl1 = seg.seq and     *)
(* snd.wl2 = seg.ack.  Stated for every reachable state and every such     *)
(* in-window ACK.                                                          *)
(***************************************************************************)
WindowUpdateDue(pcb, seq, ack) ==
    /\ InState(pcb, {TCP_PCB_STATE_ESTABLISHED, TCP_PCB_STATE_FIN_WAIT1,
                     TCP_PCB_STATE_FIN_WAIT2, TCP_PCB_STATE_CLOSE_WAIT})
    /\ pcb.rcv.wnd > 0 /\ seq = pcb.rcv.nxt
    /\ pcb.snd.una < ack /\ ack <= pcb.snd.nxt
    /\ (pcb.snd.wl1 < seq \/ (pcb.snd.wl1 = seq /\ pcb.snd.wl2 <= ack))

C26_WindowUpdate ==
    (Running /\ Target # NoPcb) =>
    \A ack \in {pcbs[Target].snd.una + 1, pcbs[Target].snd.nxt} : \A wnd \in {0, BUF_SIZE} :
        LET seq == pcbs[Target].rcv.nxt
            M == Arrive(TCP_FLG_ACK, seq, ack, wnd, << >>)
        IN  WindowUpdateDue(pcbs[Target], seq, ack) =>
                /\ M.pcbs[Target].snd.wnd = wnd
                /\ M.pcbs[Target].snd.wl1 = seq
                /\ M.pcbs[Target].snd.wl2 = ack

\* such an ACK is handled: the window and snd.wl2 are taken from the segment
\* and snd.wl1 keeps its old value
C26_Wl1Stale ==
    /\ Running /\ Target # NoPcb
    /\ LET seq == pcbs[Target].rcv.nxt
           ack == pcbs[Target].snd.nxt
           M == Arrive(TCP_FLG_ACK, seq, ack, BUF_SIZE, << >>)
       IN  /\ WindowUpdateDue(pcbs[Target], seq, ack)
           /\ M.pcbs[Target].snd.wnd = BUF_SIZE
           /\ M.pcbs[Target].snd.wl2 = ack
           /\ M.pcbs[Target].snd.wl1 = pcbs[Target].snd.wl1
           /\ M.pcbs[Target].snd.wl1 # seq

(***************************************************************************)
(* C27: an acceptable FIN (sequence number rcv.nxt inside an open window,  *)
(* ACK bit set, snd.una <= seg.ack <= snd.nxt) sets rcv.nxt = seg.seq + 1  *)
(* and is answered with one ACK; it moves SYN_RECEIVED and ESTABLISHED to  *)
(* CLOSE_WAIT and wakes the parked tasks, FIN_WAIT2 to TIME_WAIT,          *)
(* FIN_WAIT1 to TIME_WAIT when seg.ack = snd.nxt and to CLOSING otherwise, *)
(* leaves CLOSE_WAIT alone, and stamps time_wait with the current time     *)
(* whenever TIME_WAIT is entered.  Stated for every reachable state.       *)
(***************************************************************************)
FinHandled(pcb, ack, M) ==
    LET q == M.pcbs[Target] IN
    /\ M.fault = "none"
    /\ q.rcv.nxt = U32(pcb.rcv.nxt + 1)
    /\ Len(M.out) = 1
    /\ M.out[1].flg = TCP_FLG_ACK
    /\ M.out[1].seq = pcb.snd.nxt
    /\ M.out[1].ack = U32(pcb.rcv.nxt + 1)
    /\ InState(pcb, {TCP_PCB_STATE_SYN_RECEIVED, TCP_PCB_STATE_ESTABLISHED}) =>
          /\ q.state = TCP_PCB_STATE_CLOSE_WAIT
          /\ \A t \in Parked(Cur, Target) : M.tasks[t].pc = "woken"
    /\ pcb.state = TCP_PCB_STATE_FIN_WAIT2 =>
          q.state = TCP_PCB_STATE_TIME_WAIT /\ q.time_wait = now
    /\ (pcb.state = TCP_PCB_STATE_FIN_WAIT1 /\ ack = pcb.snd.nxt) =>
          q.state = TCP_PCB_STATE_TIME_WAIT /\ q.time_wait = now
    /\ (pcb.state = TCP_PCB_STATE_FIN_WAIT1 /\ ack # pcb.snd.nxt) =>
          q.state = TCP_PCB_STATE_CLOSING
    /\ pcb.state = TCP_PCB_STATE_CLOSE_WAIT => q.state = TCP_PCB_STATE_CLOSE_WAIT

C27_FinStep ==
    (Running /\ Target # NoPcb) =>
    LET pcb == pcbs[Target] IN
    (/\ InState(pcb, {TCP_PCB_STATE_SYN_RECEIVED, TCP_PCB_STATE_ESTABLISHED,
                      TCP_PCB_STATE_FIN_WAIT1, TCP_PCB_STATE_FIN_WAIT2,
                      TCP_PCB_STATE_CLOSE_WAIT})
     /\ pcb.rcv.wnd > 0)
    => \A ack \in {pcb.snd.una, pcb.snd.nxt} :
           FinHandled(pcb, ack,
               Arrive(TCP_FLG_FIN + TCP_FLG_ACK, pcb.rcv.nxt, ack, BUF_SIZE, << >>))

\* the peer's FIN|ACK has just been handled: an ACK was sent and the PCB is
\* in TIME_WAIT with time_wait stamped at the current time, or in CLOSING
C27_Witness ==
    /\ step.op = "segment" /\ step.flags = TCP_FLG_FIN + TCP_FLG_ACK
    /\ Target # NoPcb
    /\ Len(out) = 1 /\ out[1].flg = TCP_FLG_ACK /\ out[1].ack = pcbs[Target].rcv.nxt
    /\ \/ pcbs[Target].state = TCP_PCB_STATE_TIME_WAIT /\ pcbs[Target].time_wait = now
       \/ pcbs[Target].state = TCP_PCB_STATE_CLOSING

(***************************************************************************)
(* The retransmit timer on a fine clock.  The interrupt thread gets        *)
(* SIGALRM every millisecond and net_timer_handler runs                    *)
(* tcp_retransmit_timer when more than 100 ms have passed since its last   *)
(* run; the clock of this specification moves from one run to the next.    *)
(* net.alrm is set while a run is due.                                     *)
(***************************************************************************)
BackoffEnd == 13000              \* the clock stops here (ms)
TickSteps == {100, 250}          \* ms between two runs of the retransmit timer

\* one connection is opened at a time
BackoffOpen ==
    \E t \in Tasks :
        /\ Caller(t)
        /\ \A p \in DOMAIN pcbs : pcbs[p].state = TCP_PCB_STATE_FREE
        /\ now + (TCP_RETRANSMIT_DEADLINE + 1) * 1000 <= BackoffEnd
        /\ Bounded(tcp_open_rfc793(Cur, t, LocalEP, ForeignEP, 1, LocalIss, now, TRUE))
        /\ Apply(tcp_open_rfc793(Cur, t, LocalEP, ForeignEP, 1, LocalIss, now, TRUE),
                 Label("open", t))
        /\ UNCHANGED now

\* the peer answers the SYN
BackoffSegment ==
    /\ Target # NoPcb
    /\ Apply(Arrive(TCP_FLG_SYN + TCP_FLG_ACK, PeerIss, pcbs[Target].snd.nxt, BUF_SIZE, << >>),
             SegmentLabel(TCP_FLG_SYN + TCP_FLG_ACK))
    /\ UNCHANGED now

BackoffTick ==
    /\ ~net.alrm
    /\ \E d \in TickSteps : now + d <= BackoffEnd /\ now' = now + d
    /\ net' = [net EXCEPT !.alrm = TRUE]
    /\ Install(Cur, Label("advance", 0))
    /\ UNCHANGED <<wire, mutex>>

BackoffTimer ==
    /\ net.alrm
    /\ net' = [net EXCEPT !.alrm = FALSE]
    /\ Install(tcp_retransmit_timer(Cur, now), Label("retransmit_timer", 0))
    /\ UNCHANGED <<now, wire, mutex>>

BackoffNext ==
    BackoffOpen \/ BackoffSegment \/ UserResume \/ BackoffTick \/ BackoffTimer

SpecBackoff ==
    Init /\ [][BackoffNext]_vars /\ WF_vars(BackoffTick) /\ WF_vars(BackoffTimer)

(***************************************************************************)
(* C28: retransmission backoff.  An entry is retransmitted for the first   *)
(* time no earlier than 200 ms after it was sent and each later time no    *)
(* earlier than its current RTO after the previous transmission, the RTO   *)
(* doubling with every retransmission; an unanswered SYN is retransmitted  *)
(* at least three times, and no entry meets the 12 s deadline with fewer   *)
(* than three retransmissions.                                             *)
(***************************************************************************)
Entries == {pi \in (DOMAIN pcbs) \X (1..MaxQueue) : pi[2] <= Len(pcbs[pi[1]].queue)}
ThreeTimes(e) == e.rto >= 8 * TCP_DEFAULT_RTO

\* the transmissions so far kept the backoff, and the deadline has not come
\* before the third retransmission
BackoffKept ==
    \A pi \in Entries :
        LET e == pcbs[pi[1]].queue[pi[2]] IN
        /\ e.rto \in {TCP_DEFAULT_RTO * (2 ^ k) : k \in 0..6}
        /\ (e.last - e.first) * 1000 >= e.rto - TCP_DEFAULT_RTO
        /\ (now - e.first) \div 1000 >= TCP_RETRANSMIT_DEADLINE => ThreeTimes(e)

\* a step keeps an entry as it is or retransmits it: later than the RTO
\* after the last transmission, stamping it and doubling the RTO
BackoffStep ==
    \A pi \in Entries :
        LET e == pcbs[pi[1]].queue[pi[2]]
            q == pcbs'[pi[1]].queue
        IN  (pi[2] <= Len(q) /\ q[pi[2]].first = e.first /\ q[pi[2]].seq = e.seq) =>
                \/ q[pi[2]] = e /\ \A k \in DOMAIN out' : out'[k].seq # e.seq
                \/ /\ now' * 1000 > e.last * 1000 + e.rto
                   /\ q[pi[2]].last = now'
                   /\ q[pi[2]].rto = 2 * e.rto
                   /\ \E k \in DOMAIN out' : out'[k].seq = e.seq /\ out'[k].flg = e.flg

Unanswered(p) == pcbs[p].state = TCP_PCB_STATE_SYN_SENT /\ pcbs[p].queue # << >>

C28_Backoff ==
    /\ []BackoffKept
    /\ [][BackoffStep]_vars
    /\ \A p \in Pcbs :
          Unanswered(p) ~> (~Unanswered(p) \/ ThreeTimes(pcbs[p].queue[1]))

\* the SYN has been retransmitted three times, the third time just now, and
\* the connection is still being opened
C28_Witness ==
    /\ step.op = "retransmit_timer"
    /\ \E p \in Pcbs :
          /\ Unanswered(p)
          /\ pcbs[p].queue[1].rto = 8 * TCP_DEFAULT_RTO
          /\ pcbs[p].queue[1].last = now
          /\ Len(out) = 1 /\ out[1].flg = TCP_FLG_SYN
          /\ (now - pcbs[p].queue[1].first) \div 1000 < TCP_RETRANSMIT_DEADLINE

(***************************************************************************)
(* C29: when the retransmit timer finds an entry whose first transmission  *)
(* is at least 12 s old, the PCB is released as part of that run of the    *)
(* timer: the parked tasks are woken and the slot is FREE afterwards,      *)
(* whether or not a task is parked on it.  Stated for every reachable      *)
(* state in which the timer may run.                                       *)
(***************************************************************************)
DeadlineMet(p) ==
    /\ pcbs[p].state # TCP_PCB_STATE_FREE
    /\ \E i \in DOMAIN pcbs[p].queue :
          (now - pcbs[p].queue[i].first) \div 1000 >= TCP_RETRANSMIT_DEADLINE

C29_DeadlineReleases ==
    Running =>
    \A p \in DOMAIN pcbs :
        DeadlineMet(p) =>
            LET M == tcp_retransmit_timer(Cur, now) IN
            /\ \A t \in Parked(Cur, p) : M.tasks[t].pc = "woken"
            /\ M.pcbs[p].state = TCP_PCB_STATE_FREE

\* the timer has run on a PCB past the deadline that no task waits on: the
\* PCB is CLOSED, still allocated, its entry still queued
C29_LeftClosed ==
    /\ step.op = "retransmit_timer"
    /\ \E p \in DOMAIN pcbs :
          /\ DeadlineMet(p)
          /\ pcbs[p].state = TCP_PCB_STATE_CLOSED
          /\ \A t \in DOMAIN tasks : tasks[t].pc = "idle"

(***************************************************************************)
(* tcp_pcb_select on tables of every shape.  Only the fields the function  *)
(* reads are drawn: a slot is FREE (all zero), in LISTEN with a wildcard   *)
(* or a named foreign endpoint, or in ESTABLISHED with a named foreign     *)
(* endpoint; tcp_open_rfc793 does not refuse a second PCB for an endpoint  *)
(* pair, so equal slots occur.                                             *)
(***************************************************************************)
SelectSlots == 3
SelectLocals == {LocalEP, EP(IP_ADDR_ANY, LocalEP.port), EP(LocalEP.addr, LocalEP.port + 1)}
SelectForeigns == {ForeignEP, EP(ForeignEP.addr, ForeignEP.port + 1)}
SelectPcbs ==
    {ZeroPcb}
    \cup {[ZeroPcb EXCEPT !.state = TCP_PCB_STATE_LISTEN, !.local = l, !.foreign = f] :
             l \in SelectLocals, f \in SelectForeigns \cup {EP_ANY}}
    \cup {[ZeroPcb EXCEPT !.state = TCP_PCB_STATE_ESTABLISHED, !.local = l, !.foreign = f] :
             l \in SelectLocals, f \in SelectForeigns}

\* the loop of tcp_pcb_select from slot p on, listen_pcb being the wildcard
\* LISTEN PCB remembered so far
RECURSIVE SelectLoop_KeepFirst(_, _, _, _, _)
SelectLoop_KeepFirst(P, p, listen_pcb, local, foreign) ==
    IF p > Len(P) THEN listen_pcb
    ELSE IF ~LocalMatch(P, p, local)
    THEN SelectLoop_KeepFirst(P, p + 1, listen_pcb, local, foreign)
    ELSE IF foreign = NoEP THEN p
    ELSE IF P[p].foreign = foreign THEN p
    ELSE IF P[p].state = TCP_PCB_STATE_LISTEN /\ P[p].foreign = EP_ANY
    THEN SelectLoop_KeepFirst(P, p + 1, IF listen_pcb = NoPcb THEN p ELSE listen_pcb,
                              local, foreign)
    ELSE SelectLoop_KeepFirst(P, p + 1, listen_pcb, local, foreign)

RECURSIVE SelectLoop(_, _, _, _, _)
SelectLoop(P, p, listen_pcb, local, foreign) ==
    IF p > Len(P) THEN listen_pcb
    ELSE IF ~LocalMatch(P, p, local)
    THEN SelectLoop(P, p + 1, listen_pcb, local, foreign)
    ELSE IF foreign = NoEP THEN p
    ELSE IF P[p].foreign = foreign THEN p
    ELSE IF P[p].state = TCP_PCB_STATE_LISTEN /\ P[p].foreign = EP_ANY
    THEN SelectLoop(P, p + 1, p, local, foreign)
    ELSE SelectLoop(P, p + 1, listen_pcb, local, foreign)

SelectInit ==
    /\ pcbs \in [1..SelectSlots -> SelectPcbs]
    /\ tasks = [t \in Tasks |-> IdleTask]
    /\ step = Label("init", 0)
    /\ ret = NoRet
    /\ out = << >>
    /\ now = 0
    /\ estab = [p \in 1..SelectSlots |-> NoSnap]
    /\ fault = "none"
    /\ libc = "ebusy"
    /\ wire = << >>
    /\ mutex = Unlocked
    /\ net = NetIdle

\* tcp_input looks up the PCB for a segment from ForeignEP to LocalEP
SelectSegment ==
    /\ ret' = [NoRet EXCEPT !.op = "select",
                            !.pcb = SelectLoop(pcbs, 1, NoPcb, LocalEP, ForeignEP)]
    /\ step' = Label("select", 0)
    /\ UNCHANGED <<pcbs, tasks, out, now, estab, fault, libc, wire, mutex, net>>

SelectNext == SelectSegment
SpecSelect == SelectInit /\ [][SelectNext]_vars

Selected == SelectLoop(pcbs, 1, NoPcb, LocalEP, ForeignEP)
BothMatch == {p \in DOMAIN pcbs : LocalMatch(pcbs, p, LocalEP) /\ pcbs[p].foreign = ForeignEP}
ListenMatch == {p \in DOMAIN pcbs : /\ LocalMatch(pcbs, p, LocalEP)
                                    /\ pcbs[p].state = TCP_PCB_STATE_LISTEN
                                    /\ pcbs[p].foreign = EP_ANY}

(***************************************************************************)
(* C30: tcp_pcb_select returns a PCB whose local and foreign endpoints     *)
(* both match the segment if there is one (the first in table order),      *)
(* otherwise a LISTEN PCB with wildcard foreign whose local endpoint       *)
(* matches, otherwise nothing; among several such LISTEN PCBs it returns   *)
(* the first one in table order.                                           *)
(***************************************************************************)
C30_SelectFirstListen ==
    /\ BothMatch # {} => Selected \in BothMatch /\ \A q \in BothMatch : Selected <= q
    /\ (BothMatch = {} /\ ListenMatch # {}) =>
           Selected \in ListenMatch /\ \A q \in ListenMatch : Selected <= q
    /\ (BothMatch = {} /\ ListenMatch = {}) => Selected = NoPcb

\* C30 as the code has it: among several matching wildcard LISTEN PCBs
\* tcp_pcb_select returns the last one in table order; the rest as above.
\* The result is the one the segment handlers use.
C30_SelectLastListen ==
    /\ BothMatch # {} => Selected \in BothMatch /\ \A q \in BothMatch : Selected <= q
    /\ (BothMatch = {} /\ ListenMatch # {}) =>
           Selected \in ListenMatch /\ \A q \in ListenMatch : q <= Selected
    /\ (BothMatch = {} /\ ListenMatch = {}) => Selected = NoPcb
    /\ Selected = tcp_pcb_select(pcbs, LocalEP, ForeignEP)

\* the lookup has run on a table with two matching wildcard LISTEN PCBs and
\* no PCB for the pair, and has returned the later one
C30_Witness ==
    /\ ret.op = "select"
    /\ BothMatch = {}
    /\ \E p, q \in ListenMatch : p < q /\ ret.pcb = q

(***************************************************************************)
(* C31: in every reachable state the entries of each PCB's retransmission  *)
(* queue are in strictly increasing order of their sequence number from    *)
(* head to tail.                                                           *)
(***************************************************************************)
C31_QueueOrdered ==
    \A p \in DOMAIN pcbs :
        \A i, j \in DOMAIN pcbs[p].queue :
            i < j => pcbs[p].queue[i].seq < pcbs[p].queue[j].seq

\* simultaneous open: the SYN and the SYN|ACK sent on the peer's SYN are
\* both queued with the sequence number iss
C31_SameSeqTwice ==
    /\ step.op = "segment" /\ step.flags = TCP_FLG_SYN
    /\ \E p \in DOMAIN pcbs :
          /\ pcbs[p].state = TCP_PCB_STATE_SYN_RECEIVED
          /\ pcbs[p].active = 1
          /\ Len(pcbs[p].queue) = 2
          /\ pcbs[p].queue[1].flg = TCP_FLG_SYN
          /\ pcbs[p].queue[2].flg = TCP_FLG_SYN + TCP_FLG_ACK
          /\ pcbs[p].queue[1].seq = pcbs[p].queue[2].seq

(***************************************************************************)
(* arp.c: the ARP cache.  In this specification net holds the table        *)
(* (caches) and the position of arp_input on the interrupt thread (arp):   *)
(* arp_input locks the mutex for the update, unlocks it, and locks it      *)
(* again for the insert; arp_resolve and arp_timer_handler hold the mutex  *)
(* for their whole access.  Each locked section is one step.               *)
(***************************************************************************)
ARP_CACHE_TIMEOUT == 30          \* seconds
ARP_CACHE_STATE_FREE == 0
ARP_CACHE_STATE_INCOMPLETE == 1
ARP_CACHE_STATE_RESOLVED == 2
ArpSlots == 3                    \* entries of caches[]
ArpPeers == 2                    \* protocol addresses 1..ArpPeers on the link
ArpEnd == 62000                  \* the clock stops here (ms)
unicast == ArpPeers + 1          \* the interface's own address
HwAddr(pa) == pa + 10            \* the hardware address of the station pa

FreeCache == [state |-> ARP_CACHE_STATE_FREE, pa |-> 0, ha |-> 0, timestamp |-> 0]
ArpIdle == [caches |-> [i \in 1..ArpSlots |-> FreeCache],
            arp |-> [pc |-> "idle", spa |-> 0, tpa |-> 0, merge |-> 0]]

arp_cache_delete(C, i) == [C EXCEPT ![i] = FreeCache]

\* the entry arp_cache_alloc returns: the first FREE one, else the oldest
\* (the first of the oldest ones)
RECURSIVE Oldest(_, _, _)
Oldest(C, i, oldest) ==
    IF i > Len(C) THEN oldest
    ELSE IF oldest = 0 \/ C[oldest].timestamp > C[i].timestamp
    THEN Oldest(C, i + 1, i)
    ELSE Oldest(C, i + 1, oldest)

arp_cache_alloc(C) ==
    LET free == {i \in DOMAIN C : C[i].state = ARP_CACHE_STATE_FREE}
    IN  IF free # {} THEN CHOOSE i \in free : \A j \in free : i <= j
        ELSE Oldest(C, 1, 0)

\* the first entry that is not FREE and holds pa, or 0
arp_cache_select(C, pa) ==
    LET found == {i \in DOMAIN C : C[i].state # ARP_CACHE_STATE_FREE /\ C[i].pa = pa}
    IN  IF found = {} THEN 0 ELSE CHOOSE i \in found : \A j \in found : i <= j

Resolved(pa, ha, tm) ==
    [state |-> ARP_CACHE_STATE_RESOLVED, pa |-> pa, ha |-> ha, timestamp |-> tm]

\* the table after arp_cache_update; the call returns NULL iff nothing is found
arp_cache_update(C, pa, ha, tm) ==
    IF arp_cache_select(C, pa) = 0 THEN C
    ELSE [C EXCEPT ![arp_cache_select(C, pa)] = Resolved(pa, ha, tm)]

arp_cache_insert(C, pa, ha, tm) ==
    [C EXCEPT ![arp_cache_alloc(C)] = Resolved(pa, ha, tm)]

\* arp_resolve: the table afterwards
arp_resolve(C, pa, tm) ==
    IF arp_cache_select(C, pa) = 0
    THEN [C EXCEPT ![arp_cache_alloc(C)] =
             [state |-> ARP_CACHE_STATE_INCOMPLETE, pa |-> pa, ha |-> 0, timestamp |-> tm]]
    ELSE C

RECURSIVE ArpSweep(_, _, _)
ArpSweep(C, i, tm) ==
    IF i > Len(C) THEN C
    ELSE IF C[i].state # ARP_CACHE_STATE_FREE
            /\ (tm - C[i].timestamp) \div 1000 > ARP_CACHE_TIMEOUT
    THEN ArpSweep(arp_cache_delete(C, i), i + 1, tm)
    ELSE ArpSweep(C, i + 1, tm)

arp_timer_handler(C, tm) == ArpSweep(C, 1, tm)

ArpRest == <<pcbs, tasks, ret, out, estab, fault, libc, wire, mutex>>

ArpInit ==
    /\ pcbs = [p \in Pcbs |-> ZeroPcb]
    /\ tasks = [t \in Tasks |-> IdleTask]
    /\ step = Label("init", 0)
    /\ ret = NoRet
    /\ out = << >>
    /\ now = 0
    /\ estab = [p \in Pcbs |-> NoSnap]
    /\ fault = "none"
    /\ libc = "ebusy"
    /\ wire = << >>
    /\ mutex = Unlocked
    /\ net = ArpIdle

\* arp_input up to the first mutex_unlock: the sender's entry is updated
ArpInputUpdate ==
    /\ net.arp.pc = "idle"
    /\ \E spa \in 1..ArpPeers : \E tpa \in {unicast, spa} :
          net' = [net EXCEPT
              !.caches = arp_cache_update(@, spa, HwAddr(spa), now),
              !.arp = [pc |-> "updated", spa |-> spa, tpa |-> tpa,
                       merge |-> IF arp_cache_select(net.caches, spa) # 0 THEN 1 ELSE 0]]
    /\ step' = Label("arp_input", 0)
    /\ UNCHANGED now /\ UNCHANGED ArpRest

\* the rest of arp_input: the insert in its own locked section
ArpInputMerge ==
    /\ net.arp.pc = "updated"
    /\ net' = [net EXCEPT
          !.caches = IF net.arp.tpa = unicast /\ net.arp.merge = 0
                     THEN arp_cache_insert(@, net.arp.spa, HwAddr(net.arp.spa), now)
                     ELSE @,
          !.arp = ArpIdle.arp]
    /\ step' = Label("arp_merge", 0)
    /\ UNCHANGED now /\ UNCHANGED ArpRest

\* a user task sends to pa: ip_output calls arp_resolve
ArpResolve ==
    /\ \E pa \in 1..ArpPeers :
          net' = [net EXCEPT !.caches = arp_resolve(@, pa, now)]
    /\ step' = Label("arp_resolve", 1)
    /\ UNCHANGED now /\ UNCHANGED ArpRest

ArpTimer ==
    /\ net' = [net EXCEPT !.caches = arp_timer_handler(@, now)]
    /\ step' = Label("arp_timer", 0)
    /\ UNCHANGED now /\ UNCHANGED ArpRest

ArpAdvance ==
    /\ now + (ARP_CACHE_TIMEOUT + 1) * 1000 <= ArpEnd
    /\ now' = now + (ARP_CACHE_TIMEOUT + 1) * 1000
    /\ step' = Label("advance", 0)
    /\ UNCHANGED net /\ UNCHANGED ArpRest

ArpNext == ArpInputUpdate \/ ArpInputMerge \/ ArpResolve \/ ArpTimer \/ ArpAdvance
SpecArp == ArpInit /\ [][ArpNext]_vars

(***************************************************************************)
(* C32: the ARP cache holds at most one entry that is not FREE per         *)
(* protocol address, in every reachable state.                             *)
(***************************************************************************)
C32_OneEntryPerAddress ==
    \A i, j \in DOMAIN net.caches :
        (/\ i # j
         /\ net.caches[i].state # ARP_CACHE_STATE_FREE
         /\ net.caches[j].state # ARP_CACHE_STATE_FREE)
        => net.caches[i].pa # net.caches[j].pa

\* arp_input has inserted the sender's address although arp_resolve had
\* created an entry for it between the update and the insert
C32_Duplicate ==
    /\ step.op = "arp_merge"
    /\ \E i, j \in DOMAIN net.caches :
          /\ net.caches[i].state = ARP_CACHE_STATE_INCOMPLETE
          /\ net.caches[j].state = ARP_CACHE_STATE_RESOLVED
          /\ net.caches[i].pa = net.caches[j].pa

(***************************************************************************)
(* C33: a task parked in tcp_send because the usable window is 0 is woken  *)
(* by the ACK or window advertisement that makes                           *)
(* snd.wnd - (snd.nxt - snd.una) positive.  Stated for every reachable     *)
(* state with such a task and every acknowledgement without data.          *)
(***************************************************************************)
ParkedSenders == {t \in DOMAIN tasks : tasks[t].pc = "parked" /\ tasks[t].op = "send"}

C33_AckWakesSender ==
    (Running /\ Target # NoPcb) =>
    \A t \in ParkedSenders : \A ack \in DataAcks : \A wnd \in Windows :
        LET M == Arrive(TCP_FLG_ACK, pcbs[Target].rcv.nxt, ack, wnd, << >>) IN
        (/\ tasks[t].pcb = Target
         /\ SendCap(pcbs[Target]) = 0
         /\ SendCap(M.pcbs[Target]) > 0)
        => M.tasks[t].pc = "woken"

\* the peer's ACK has opened the window and the sender is still parked
C33_StillParked ==
    /\ step.op = "segment" /\ step.flags = TCP_FLG_ACK
    /\ Target # NoPcb
    /\ pcbs[Target].state = TCP_PCB_STATE_ESTABLISHED
    /\ SendCap(pcbs[Target]) = BUF_SIZE
    /\ pcbs[Target].snd.una = pcbs[Target].snd.nxt
    /\ \E t \in ParkedSenders : tasks[t].pcb = Target

(***************************************************************************)
(* C34: in ESTABLISHED, FIN_WAIT1 and CLOSE_WAIT every sequence number in  *)
(* [snd.una, snd.nxt) is covered by an entry of the retransmission queue,  *)
(* in every reachable state.                                               *)
(***************************************************************************)
EntryLen(e) == SegLen(e.flg, e.data)

C34_UnackedCovered ==
    \A p \in DOMAIN pcbs :
        InState(pcbs[p], {TCP_PCB_STATE_ESTABLISHED, TCP_PCB_STATE_FIN_WAIT1,
                          TCP_PCB_STATE_CLOSE_WAIT}) =>
            \A s \in pcbs[p].snd.una .. (pcbs[p].snd.nxt - 1) :
                \E i \in DOMAIN pcbs[p].queue :
                    /\ pcbs[p].queue[i].seq <= s
                    /\ s < pcbs[p].queue[i].seq + EntryLen(pcbs[p].queue[i])

\* the peer has acknowledged the first byte of a data segment: the whole
\* entry has left the queue, the other bytes are unacknowledged
C34_PartlyAcked ==
    /\ step.op = "segment" /\ step.flags = TCP_FLG_ACK
    /\ Target # NoPcb
    /\ pcbs[Target].state = TCP_PCB_STATE_ESTABLISHED
    /\ pcbs[Target].queue = << >>
    /\ pcbs[Target].snd.una < pcbs[Target].snd.nxt

(***************************************************************************)
(* C35: the bytes tcp_receive returns are a prefix of the peer's byte      *)
(* stream, without gap, duplicate or reordering.  tcp_receive hands out    *)
(* the head of the buffer, so this is stated on the buffer: the buffered   *)
(* bytes are the stream's bytes that end just before rcv.nxt, and every    *)
(* data segment that passes the sequence check and fits into the free      *)
(* part of the buffer keeps it so, whether it starts at rcv.nxt, before    *)
(* it (a retransmission that overlaps) or after it.                        *)
(***************************************************************************)
BufInOrder(pcb) ==
    pcb.buf = PeerData(pcb.rcv.nxt - Len(pcb.buf), Len(pcb.buf))

C35_StreamInOrder ==
    (Running /\ Target # NoPcb) =>
    LET pcb == pcbs[Target] IN
    (pcb.state = TCP_PCB_STATE_ESTABLISHED /\ BufInOrder(pcb)) =>
    \A seq \in {pcb.rcv.nxt - 2, pcb.rcv.nxt, pcb.rcv.nxt + 2} : \A dlen \in {4, 6} :
        LET data == PeerData(seq, dlen)
            seg == [seq |-> seq, ack |-> pcb.snd.nxt, len |-> dlen, wnd |-> BUF_SIZE]
            M == Arrive(TCP_FLG_ACK + TCP_FLG_PSH, seq, pcb.snd.nxt, BUF_SIZE, data)
        IN  (seq > PeerIss /\ dlen <= pcb.rcv.wnd /\ SeqAcceptable(pcb, seg))
            => BufInOrder(M.pcbs[Target])

\* six bytes are buffered and the segment that starts two bytes after
\* rcv.nxt is stored right behind them: the stream has a gap
C35_Gap ==
    /\ Running /\ Target # NoPcb
    /\ pcbs[Target].state = TCP_PCB_STATE_ESTABLISHED
    /\ BufInOrder(pcbs[Target]) /\ Len(pcbs[Target].buf) = 6
    /\ LET seq == pcbs[Target].rcv.nxt + 2
           M == Arrive(TCP_FLG_ACK + TCP_FLG_PSH, seq, pcbs[Target].snd.nxt, BUF_SIZE,
                       PeerData(seq, 4))
       IN  /\ Len(M.pcbs[Target].buf) = 10
           /\ M.pcbs[Target].buf[7] = M.pcbs[Target].buf[6] + 3
           /\ M.pcbs[Target].rcv.nxt = seq + 4

(***************************************************************************)
(* C36: a PCB in LISTEN has an empty retransmission queue in every         *)
(* reachable state.                                                        *)
(***************************************************************************)
C36_ListenQueueEmpty ==
    \A p \in DOMAIN pcbs :
        pcbs[p].state = TCP_PCB_STATE_LISTEN => pcbs[p].queue = << >>

\* an RST has sent a passive PCB back from SYN_RECEIVED to LISTEN and its
\* SYN|ACK is still queued
C36_StaleSynAck ==
    /\ step.op = "segment" /\ TCP_FLG_ISSET(step.flags, TCP_FLG_RST)
    /\ \E p \in DOMAIN pcbs :
          /\ pcbs[p].state = TCP_PCB_STATE_LISTEN
          /\ Len(pcbs[p].queue) = 1
          /\ pcbs[p].queue[1].flg = TCP_FLG_SYN + TCP_FLG_ACK
          /\ tcp_retransmit_timer(Cur, now + TCP_RETRANSMIT_DEADLINE * 1000).pcbs[p].state
                 = TCP_PCB_STATE_CLOSED

(***************************************************************************)
(* C37: a PCB in LISTEN that was opened passively with a wildcard foreign  *)
(* endpoint has its wildcard foreign endpoint, also after it has come back *)
(* from SYN_RECEIVED on an RST, so a SYN from another foreign endpoint to  *)
(* the same local port finds a PCB and starts a handshake with it.         *)
(* Stated for every reachable state; every passive open of this            *)
(* specification is made with a wildcard foreign endpoint.                 *)
(***************************************************************************)
OtherForeignEP == EP(ForeignEP.addr, ForeignEP.port + 1)

SynFrom(foreign) ==
    tcp_segment_arrives(Cur, [seq |-> PeerIss, ack |-> 0, len |-> 1, wnd |-> BUF_SIZE],
                        TCP_FLG_SYN, << >>, LocalEP, foreign, LocalIss, now)

C37_ListenerWildcardAgain ==
    Running =>
    \A p \in DOMAIN pcbs :
        (pcbs[p].state = TCP_PCB_STATE_LISTEN /\ pcbs[p].active = 0) =>
            /\ pcbs[p].foreign = EP_ANY
            /\ \E q \in DOMAIN pcbs :
                  /\ SynFrom(OtherForeignEP).pcbs[q].state = TCP_PCB_STATE_SYN_RECEIVED
                  /\ SynFrom(OtherForeignEP).pcbs[q].foreign = OtherForeignEP

\* the listener is back in LISTEN after an RST and keeps the endpoint of
\* the peer that reset it: the SYN of another peer finds no PCB and is
\* answered with an RST
C37_ListenerBound ==
    /\ step.op = "segment" /\ TCP_FLG_ISSET(step.flags, TCP_FLG_RST)
    /\ \E p \in DOMAIN pcbs :
          /\ pcbs[p].state = TCP_PCB_STATE_LISTEN
          /\ pcbs[p].foreign = ForeignEP
    /\ tcp_pcb_select(pcbs, LocalEP, OtherForeignEP) = NoPcb
    /\ SynFrom(OtherForeignEP).pcbs = pcbs
    /\ Len(SynFrom(OtherForeignEP).out) = 1
    /\ TCP_FLG_ISSET(SynFrom(OtherForeignEP).out[1].flg, TCP_FLG_RST)

(***************************************************************************)
(* C38: when a PCB has reached ESTABLISHED while a task was parked on it   *)
(* in tcp_open_rfc793, the call returns the PCB's handle once the task     *)
(* runs again, whatever segments the worker has handled in between.        *)
(* Stated for every reachable state in which such a task is about to run.  *)
(***************************************************************************)
OpenersWoken ==
    {t \in DOMAIN tasks : /\ tasks[t].pc = "woken" /\ tasks[t].op = "open"
                          /\ estab[tasks[t].pcb].set}

C38_OpenReturnsHandle ==
    Running =>
    \A t \in OpenersWoken :
        LET M == OpenResume(Cur, t) IN
        /\ M.ret.task = t /\ M.ret.op = "open"
        /\ M.ret.val = tcp_pcb_id(tasks[t].pcb)
        /\ M.pcbs[tasks[t].pcb].state # TCP_PCB_STATE_FREE

\* the peer's FIN has followed its SYN|ACK before the opening task ran: the
\* PCB is in CLOSE_WAIT, and the call returns -1 and releases the PCB
C38_OpenFailsAfterFin ==
    /\ step.op = "segment" /\ step.flags = TCP_FLG_FIN + TCP_FLG_ACK
    /\ \E t \in OpenersWoken :
          /\ pcbs[tasks[t].pcb].state = TCP_PCB_STATE_CLOSE_WAIT
          /\ OpenResume(Cur, t).ret.val = -1
          /\ OpenResume(Cur, t).pcbs[tasks[t].pcb].state = TCP_PCB_STATE_FREE

(***************************************************************************)
(* The life of a slot under the timers.  Connections are opened at time    *)
(* 0 and the peer and the users act until the user timeout is due; the     *)
(* clock goes on to an instant at which every TIME_WAIT has lasted 2*MSL,  *)
(* and every timer that is due is eventually dispatched.                   *)
(***************************************************************************)
ReclaimInstants == {0, TCP_USER_TIMEOUT_TIME * 1000,
                    (TCP_USER_TIMEOUT_TIME + 2 * TCP_MSL) * 1000}
ReclaimEarly == now <= TCP_USER_TIMEOUT_TIME * 1000

ReclaimOpen == now = 0 /\ UserOpen
ReclaimSegment == ReclaimEarly /\ ControlSegment
ReclaimClose == ReclaimEarly /\ UserClose

ReclaimAdvance ==
    /\ \E tm \in ReclaimInstants :
        /\ tm > now
        /\ \A u \in ReclaimInstants : u > now => tm <= u
        /\ now' = tm
    /\ Apply(Cur, Label("advance", 0))

ReclaimNext ==
    \/ ReclaimOpen
    \/ ReclaimSegment
    \/ ReclaimClose
    \/ UserResume
    \/ RetransmitTimer
    \/ UserTimeout
    \/ TimeWaitTimeout
    \/ ReclaimAdvance

SpecReclaim ==
    /\ Init /\ [][ReclaimNext]_vars
    /\ WF_vars(ReclaimAdvance)
    /\ WF_vars(RetransmitTimer) /\ WF_vars(UserTimeout) /\ WF_vars(TimeWaitTimeout)

(***************************************************************************)
(* C39: no PCB slot is leaked: while the timers keep being dispatched,     *)
(* every slot that has left FREE returns to FREE.                          *)
(***************************************************************************)
C39_SlotsReturn ==
    \A p \in Pcbs :
        (pcbs[p].state # TCP_PCB_STATE_FREE) ~> (pcbs[p].state = TCP_PCB_STATE_FREE)

\* the user timeout has tried to release a PCB on which a task is parked:
\* the timer thread waits in pthread_cond_destroy with the mutex held, the
\* slot is CLOSED for good and no timer runs any more
C39_SlotLost ==
    /\ step.op = "user_timeout"
    /\ fault = "destroy_blocked"
    /\ now >= TCP_USER_TIMEOUT_TIME * 1000
    /\ \E p \in Pcbs : pcbs[p].state = TCP_PCB_STATE_CLOSED
    /\ ~ENABLED ReclaimNext

(***************************************************************************)
(* Sequence numbers at the wrap.  One established connection, reached by   *)
(* an active open as in the data-transfer specifications, whose sequence   *)
(* numbers are a few bytes below 2^SeqBits in one or in both directions:   *)
(* the peer chooses such an initial sequence number freely, and the local  *)
(* numbers get there in a long transfer.  The task sends and the peer      *)
(* acknowledges and sends data of its own.                                 *)
(***************************************************************************)
WrapBytes == 16      \* bytes either side sends in all
WrapGap == 5         \* distance of the initial sequence numbers from the wrap
WrapIss == SeqMod - WrapGap
WrapPeerIss == SeqMod - WrapGap

WrapConnected(iss, piss) ==
    LET M1 == tcp_open_rfc793(Fresh, 1, LocalEP, ForeignEP, 1, iss, 0, TRUE)
        M2 == tcp_segment_arrives([M1 EXCEPT !.out = << >>],
                  [seq |-> piss, ack |-> U32(iss + 1), len |-> 1,
                   wnd |-> BUF_SIZE],
                  TCP_FLG_SYN + TCP_FLG_ACK, << >>, LocalEP, ForeignEP, iss, 0)
    IN  OpenResume([M2 EXCEPT !.out = << >>], 1)

WrapInit ==
    /\ \E iss \in {LocalIss, WrapIss} : \E piss \in {PeerIss, WrapPeerIss} :
        /\ pcbs = WrapConnected(iss, piss).pcbs
        /\ tasks = WrapConnected(iss, piss).tasks
        /\ estab = WrapConnected(iss, piss).estab
    /\ step = Label("init", 0)
    /\ ret = NoRet
    /\ out = << >>
    /\ now = 0
    /\ fault = "none"
    /\ libc = "ebusy"
    /\ wire = << >>
    /\ mutex = Unlocked
    /\ net = NetIdle

\* a - b in sequence space
SeqDiff(a, b) == U32(a + SeqMod - b)

\* acknowledgment numbers in (snd.una, snd.nxt] in modulo-2^SeqBits order
InFlightAcks(pcb) ==
    {U32(pcb.snd.una + d) : d \in 1..SeqDiff(pcb.snd.nxt, pcb.snd.una)}

WrapAcks == {pcbs[1].snd.una} \cup InFlightAcks(pcbs[1])

\* the peer's next segment in order: an acknowledgement, with or without data
WrapSegment ==
    /\ pcbs[1].state = TCP_PCB_STATE_ESTABLISHED
    /\ \E ack \in WrapAcks : \E wnd \in {8, BUF_SIZE} : \E dlen \in {0, 6} :
        LET seq == pcbs[1].rcv.nxt
            flags == TCP_FLG_ACK + (IF dlen > 0 THEN TCP_FLG_PSH ELSE 0)
        IN  /\ Len(pcbs[1].buf) + dlen <= WrapBytes
            /\ Apply(Arrive(flags, seq, ack, wnd, PeerData(seq, dlen)),
                     SegmentLabel(flags))
    /\ UNCHANGED now

WrapSend ==
    /\ \E t \in Tasks :
        /\ Caller(t)
        /\ SeqDiff(pcbs[1].snd.nxt, pcbs[1].iss) + 8 <= WrapBytes + 1
        /\ Apply(tcp_send(Cur, t, 0, 8, now, TRUE), Label("send", t))
    /\ UNCHANGED now

WrapNext ==
    \/ WrapSegment
    \/ WrapSend
    \/ UserResume

SpecWrap == WrapInit /\ [][WrapNext]_vars

\* snd.nxt, or the right edge of the receive window, has wrapped
SndWrapped(pcb) == pcb.snd.nxt < pcb.snd.una
RcvWrapped(pcb) == U32(pcb.rcv.nxt + pcb.rcv.wnd) < pcb.rcv.nxt

\* an in-order acknowledgement without data
PureAck(pcb, seq, ack) ==
    Arrive(TCP_FLG_ACK, seq, ack, pcb.snd.wnd, << >>)

(***************************************************************************)
(* C40: the sequence-number tests are right across the wrap: a segment     *)
(* whose seg.seq lies in the receive window in modular order passes the    *)
(* sequence check, and an ACK in (snd.una, snd.nxt] in modular order       *)
(* becomes snd.una and takes the entries before it off the                 *)
(* retransmission queue.                                                   *)
(***************************************************************************)
C40_WrapSafe ==
    (Running /\ pcbs[1].state = TCP_PCB_STATE_ESTABLISHED) =>
        /\ \A d \in {0, 1} :
            d < pcbs[1].rcv.wnd =>
                SeqAcceptable(pcbs[1],
                    [seq |-> U32(pcbs[1].rcv.nxt + d), ack |-> pcbs[1].snd.una,
                     len |-> 0, wnd |-> BUF_SIZE])
        /\ \A ack \in InFlightAcks(pcbs[1]) :
            SeqAcceptable(pcbs[1],
                [seq |-> pcbs[1].rcv.nxt, ack |-> ack, len |-> 0,
                 wnd |-> BUF_SIZE]) =>
                LET P == PureAck(pcbs[1], pcbs[1].rcv.nxt, ack).pcbs[1]
                IN  /\ P.snd.una = ack
                    /\ \A i \in 1..Len(P.queue) :
                        SeqDiff(P.queue[i].seq, pcbs[1].snd.una)
                            >= SeqDiff(ack, pcbs[1].snd.una)

\* the peer has acknowledged everything that was sent, in a segment that
\* passed the sequence check, and snd.una and the queue are as before
\* because snd.nxt has wrapped
C40_AckIgnored ==
    /\ step.op = "segment"
    /\ pcbs[1].state = TCP_PCB_STATE_ESTABLISHED
    /\ SndWrapped(pcbs[1]) /\ ~RcvWrapped(pcbs[1])
    /\ pcbs[1].queue # << >>
    /\ PureAck(pcbs[1], pcbs[1].rcv.nxt, pcbs[1].snd.nxt).pcbs[1].snd.una
           = pcbs[1].snd.una

====
